---- MODULE Spec2Model ----
(***************************************************************************)
(* A model of the S3Hunter reconnaissance pipeline:                        *)
(*   - the chunked, resumable scanner (s3_recon_chunked.py): candidate     *)
(*     name generation, the probe client, the thread pool of run_chunk,    *)
(*     the persisted domain state and the loop of run();                   *)
(*   - the size-bounded splitting of merge_results.py and                  *)
(*     validate_buckets.py.                                                *)
(* Words are sequences of one-character strings (so that normalisation     *)
(* acts character by character as str.lower / str.replace do); candidate   *)
(* names are strings.                                                      *)
(***************************************************************************)
EXTENDS Integers, Sequences, FiniteSets, TLC

(***************************************************************************)
(* Bounds of the model.                                                    *)
(***************************************************************************)
\* AWS_REGIONS is cut to its first NumRegions entries.
NumRegions == 2
\* Longest wordlist of the run-level specification.
MaxWords == 2
\* Largest --chunk-size tried.
MaxChunkSize == 2
\* Largest --domains-per-hour tried (0 stands for the option being absent).
MaxCap == 2
\* Invocations of the scanner in one behaviour.
MaxRuns == 3
\* Worker threads of the pool-level specification (--workers).
PoolWorkers == 2
\* Every tag table of the name generator (years, numbers, region codes,
\* suffixes, prefixes and the literal lists of level 3) is cut to its first
\* TagBound entries; the separator lists are kept whole.
TagBound == 1

(***************************************************************************)
(* Generic helpers.                                                        *)
(***************************************************************************)
Range(s) == {s[i] : i \in DOMAIN s}

Min(a, b) == IF a <= b THEN a ELSE b

Max(a, b) == IF a >= b THEN a ELSE b

RECURSIVE SeqSum(_)
SeqSum(s) == IF s = <<>> THEN 0 ELSE Head(s) + SeqSum(Tail(s))

\* s[:n] of Python for n >= 0
Prefix(s, n) == SubSeq(s, 1, Min(n, Len(s)))

\* every ordering of a finite set as a sequence (list(set) has no fixed order)
Orderings(S) ==
    {f \in [1..Cardinality(S) -> S] : \A i, j \in 1..Cardinality(S) : i # j => f[i] # f[j]}

(***************************************************************************)
(* Module-level tables of s3_recon_chunked.py.                             *)
(***************************************************************************)
AWS_REGIONS == <<
    "us-east-1", "us-east-2", "us-west-1", "us-west-2",
    "ca-central-1", "eu-west-1", "eu-west-2", "eu-west-3",
    "eu-central-1", "eu-north-1", "ap-south-1", "ap-northeast-1",
    "ap-northeast-2", "ap-northeast-3", "ap-southeast-1", "ap-southeast-2",
    "sa-east-1", "af-south-1", "me-south-1" >>

SEPARATORS == <<"", "-", "_", ".">>

DEFAULT_ENVIRONMENTS == <<
    "", "dev", "prod", "test", "staging", "stage", "qa", "uat",
    "backup", "backups", "data", "files", "assets",
    "public", "private", "internal", "external",
    "www", "api", "app", "web", "mobile", "admin" >>

YEARS == <<"2020", "2021", "2022", "2023", "2024", "2025">>

SHORT_YEARS == <<"20", "21", "22", "23", "24", "25">>

NUMBERS == <<"1", "2", "3", "01", "02", "03", "v1", "v2", "v3">>

REGIONS_SHORT == <<"us", "eu", "asia", "ap", "ca", "uk", "au", "br", "de", "fr", "jp">>

COMMON_SUFFIXES ==
    <<"bucket", "storage", "store", "media", "content", "static", "assets", "archive">>

COMMON_PREFIXES == <<"my", "company", "project", "app", "service", "cloud">>

\* the regions the model probes
Regions == Prefix(AWS_REGIONS, NumRegions)

\* the entries of a tag table the model uses
Tags(table) == Range(Prefix(table, TagBound))

(***************************************************************************)
(* Name generator: generate_bucket_names.                                  *)
(***************************************************************************)
\* str.lower() on the letters A-Z
UpperToLower ==
    ("A" :> "a") @@ ("B" :> "b") @@ ("C" :> "c") @@ ("D" :> "d") @@ ("E" :> "e") @@
    ("F" :> "f") @@ ("G" :> "g") @@ ("H" :> "h") @@ ("I" :> "i") @@ ("J" :> "j") @@
    ("K" :> "k") @@ ("L" :> "l") @@ ("M" :> "m") @@ ("N" :> "n") @@ ("O" :> "o") @@
    ("P" :> "p") @@ ("Q" :> "q") @@ ("R" :> "r") @@ ("S" :> "s") @@ ("T" :> "t") @@
    ("U" :> "u") @@ ("V" :> "v") @@ ("W" :> "w") @@ ("X" :> "x") @@ ("Y" :> "y") @@
    ("Z" :> "z")

Lower(c) == IF c \in DOMAIN UpperToLower THEN UpperToLower[c] ELSE c

\* one character through .lower().replace(' ', '-').replace('*', '').replace('.', '-')
NormalizeChar(c) ==
    LET l == Lower(c) IN
    IF l = " " THEN "-" ELSE IF l = "*" THEN "" ELSE IF l = "." THEN "-" ELSE l

\* the characters of a word joined into a string
RECURSIVE Str(_)
Str(chars) == IF chars = <<>> THEN "" ELSE Head(chars) \o Str(Tail(chars))

RECURSIVE NormalizeWord(_)
NormalizeWord(chars) ==
    IF chars = <<>> THEN "" ELSE NormalizeChar(Head(chars)) \o NormalizeWord(Tail(chars))

\* the names of one normalized, non-empty word at a level
NamesOfWord(word, level, envs) ==
    {word}
    \cup (IF level >= 1
          THEN UNION {{word \o sep \o env, env \o sep \o word} :
                        <<env, sep>> \in {p \in Range(envs) \X Range(SEPARATORS) :
                                            p[1] # "" /\ (p[2] # "" \/ p[1] = "")}}
          ELSE {})
    \cup (IF level >= 2
          THEN UNION {{word \o sep \o year, year \o sep \o word} :
                        <<year, sep>> \in Tags(YEARS) \X Range(SEPARATORS)}
               \cup UNION {{word \o sep \o year, year \o sep \o word} :
                        <<year, sep>> \in Tags(SHORT_YEARS) \X {"-", ""}}
               \cup {word \o sep \o num :
                        <<num, sep>> \in Tags(NUMBERS) \X Range(SEPARATORS)}
               \cup UNION {{word \o sep \o region, region \o sep \o word} :
                        <<region, sep>> \in Tags(REGIONS_SHORT) \X {"-", "_", ""}}
          ELSE {})
    \cup (IF level >= 3
          THEN {word \o sep \o suffix :
                        <<suffix, sep>> \in Tags(COMMON_SUFFIXES) \X {"-", "_", ""}}
               \cup {prefix \o sep \o word :
                        <<prefix, sep>> \in Tags(COMMON_PREFIXES) \X {"-", "_", ""}}
               \cup UNION {{word \o sep \o env \o sep \o year, word \o sep \o year \o sep \o env} :
                        <<env, year, sep>> \in Tags(<<"dev", "prod", "test", "staging">>)
                                               \X Tags(<<"2023", "2024", "2025">>) \X {"-", "_"}}
               \cup UNION {{word \o sep \o env \o sep \o region, word \o sep \o region \o sep \o env} :
                        <<env, region, sep>> \in Tags(<<"dev", "prod", "staging", "test">>)
                                                 \X Tags(<<"us", "eu", "ap">>) \X {"-", "_"}}
          ELSE {})

\* faulty variant: level 3 generates what level 1 does
generate_bucket_names_flat(words, level, envs) ==
    UNION {NamesOfWord(NormalizeWord(words[i]), IF level = 3 THEN 1 ELSE level, envs) :
             i \in {j \in DOMAIN words : NormalizeWord(words[j]) # ""}}

\* generate_bucket_names(words) with self.permutation_level = level and
\* self.environments = envs: the set `buckets` before list(buckets)
generate_bucket_names(words, level, envs) ==
    UNION {NamesOfWord(NormalizeWord(words[i]), level, envs) :
             i \in {j \in DOMAIN words : NormalizeWord(words[j]) # ""}}

(***************************************************************************)
(* State of the scanner.                                                   *)
(***************************************************************************)
VARIABLES
    \* --- configuration and environment, fixed over a behaviour
    wordlist,        \* the words load_wordlist returns (all_words)
    args,            \* the command line: chunk_size, domains_per_hour (0: absent),
                     \* permutation_level, public_only, max_workers
    environments,    \* self.environments
    net,             \* what the storage endpoints answer to HEAD and GET
    readable,        \* every wordlist file named on the command line can be read
    resume,          \* self.resume: FALSE when --no-resume was given
    \* --- persisted between invocations
    state_file,      \* state/domain_state.json
    result_files,    \* results/<date>_<domain>_chunk_<id>.json, by <<domain, id>>
    \* --- memory of the running process
    pc,              \* position of the main thread in run()
    permutation_level,
    scanned_domains,
    remaining_domains,
    chunks,
    idx,
    domains_scanned_this_run,
    scan_start_time,
    pending_write,   \* the JSON document an open(..., 'w') is about to receive
    bucket_names,
    combinations,
    results,
    total_checked,
    scanned_hashes,
    lock,            \* owner of self.lock (0: free)
    task_pc,         \* position of each submitted scan_bucket call
    task_local,      \* the counter value a call has read inside its increment
    task_result,     \* what check_bucket returned to a call
    \* --- history kept for the properties
    run,             \* number of invocations started
    start_domains,   \* the completed set this run loaded from the state file
    probes,          \* (name, region) pairs passed to check_bucket in this run
    reprobes,        \* those passed to it a second time in this run
    probed_chunks,   \* chunks of this run whose pool has finished every call:
                     \* [words, level]
    prev_run,        \* how the previous invocation ended
    \* --- one call of split_buckets_by_size (merge_results.py, validate_buckets.py)
    script,          \* whose split_buckets_by_size runs: "merge" or "validate"
    public_buckets,  \* the arguments; a record is the number of bytes its
    private_buckets, \* serialization takes inside the list
    max_size,
    files_data,
    current_file_data,
    bucket_count,
    split_pc,        \* position in split_buckets_by_size
    cursor,          \* records of the current loop already taken
    \* --- the results directory as merge_results.py and validate_buckets.py
    \* --- see it, and one run of either script
    aggregate_files, \* buckets.json (index 0), buckets_<i>.json (index i)
    batch_files,     \* the chunk result files, in the order of their names
    stage,           \* the script that runs: "merge" or "validate"
    stage_pc,        \* its position
    old_bucket_files,\* indices of the bucket files found at the start
    new_files,       \* files_data: what is to be written
    written,         \* how many of them have been written
    stats,           \* validate: public_stats and private_stats
    clock,           \* datetime.now()
    stored_at_start, \* history: the records readable in the aggregate at the start
    \* --- nuclei_scan.py: its input, its state file, its invocations
    programs,        \* the list json.load(programs_file) returns
    nuclei_state,    \* state/nuclei_state.json
    scan_log         \* history: one entry per invocation, oldest first

config_vars == <<wordlist, args, environments, net, readable, resume>>

disk_vars == <<state_file, result_files>>

run_vars ==
    <<permutation_level, scanned_domains, remaining_domains, chunks, idx,
      domains_scanned_this_run, scan_start_time, pending_write>>

chunk_vars ==
    <<bucket_names, combinations, results, total_checked, scanned_hashes, lock,
      task_pc, task_local, task_result>>

history_vars == <<run, start_domains, probes, reprobes, probed_chunks, prev_run>>

split_vars ==
    <<script, public_buckets, private_buckets, max_size, files_data,
      current_file_data, bucket_count, split_pc, cursor>>

store_vars ==
    <<aggregate_files, batch_files, stage, stage_pc, old_bucket_files, new_files,
      written, stats, clock, stored_at_start>>

nuclei_vars == <<programs, nuclei_state, scan_log>>

vars ==
    <<nuclei_vars, config_vars, disk_vars, pc, run_vars, chunk_vars, history_vars, split_vars,
      store_vars>>

(***************************************************************************)
(* Inputs of the model.                                                    *)
(***************************************************************************)
\* wordlist lines: "A" and "a" are distinct lines that normalise to one name
ModelWords == {<<"a">>, <<"A">>, <<"b">>}

Wordlists == UNION {[1..n -> ModelWords] : n \in 1..MaxWords}

\* HTTP answers: a status, or the request raising (timeout, connection error)
Status(code) == [kind |-> "response", status |-> code, marker |-> FALSE]

Listing == [kind |-> "response", status |-> 200, marker |-> TRUE]

Timeout == [kind |-> "timeout", status |-> 0, marker |-> FALSE]

ConnectionError == [kind |-> "error", status |-> 0, marker |-> FALSE]

\* the two URL shapes of check_bucket
VirtualHostedUrl(bucket, region) ==
    "https://" \o bucket \o ".s3." \o region \o ".amazonaws.com"

PathStyleUrl(bucket, region) ==
    "https://s3." \o region \o ".amazonaws.com/" \o bucket

\* nothing exists: every request is answered 404
NetQuiet == [head |-> <<>>, get |-> <<>>]

\* bucket "a": listable in region 1 (virtual-hosted shape); in region 2 the
\* virtual-hosted HEAD times out and the path shape answers 200 then 403.
\* bucket "b": redirected in region 1.
NetMixed ==
    [head |-> (VirtualHostedUrl("a", Regions[1]) :> Status(200))
              @@ (VirtualHostedUrl("a", Regions[NumRegions]) :> Timeout)
              @@ (PathStyleUrl("a", Regions[NumRegions]) :> Status(200))
              @@ (VirtualHostedUrl("b", Regions[1]) :> Status(301)),
     get  |-> (VirtualHostedUrl("a", Regions[1]) :> Listing)
              @@ (PathStyleUrl("a", Regions[NumRegions]) :> Status(403))
              @@ (VirtualHostedUrl("b", Regions[1]) :> Status(301))]

NetScenarios == {NetQuiet, NetMixed}

\* requests.head(url, ...) and requests.get(url, ...)
Head_(url) == IF url \in DOMAIN net.head THEN net.head[url] ELSE Status(404)

Get_(url) == IF url \in DOMAIN net.get THEN net.get[url] ELSE Status(404)

(***************************************************************************)
(* Probe client: check_bucket and determine_access.                        *)
(***************************************************************************)
\* faulty variant: a GET that raises is classified "unknown"
determine_access_raising(url) ==
    LET response == Get_(url) IN
    IF response.kind # "response" THEN "unknown"
    ELSE IF response.status = 200
         THEN (IF response.marker THEN "public" ELSE "accessible")
    ELSE IF response.status = 403 THEN "private"
    ELSE IF response.status \in {301, 302, 307} THEN "exists"
    ELSE "unknown"

determine_access(url) ==
    LET response == Get_(url) IN
    IF response.kind # "response" THEN "private"
    ELSE IF response.status = 200
         THEN (IF response.marker THEN "public" ELSE "accessible")
    ELSE IF response.status = 403 THEN "private"
    ELSE IF response.status \in {301, 302, 307} THEN "exists"
    ELSE "unknown"

None == [found |-> FALSE, url |-> "", bucket |-> "", region |-> "", status |-> 0,
         access |-> ""]

\* the HEAD of one URL shape qualifies
Qualifies(url) == Head_(url).kind = "response" /\ Head_(url).status \in {200, 301, 302, 307}

ProbeRecord(url, bucket, region) ==
    [found |-> TRUE, url |-> url, bucket |-> bucket, region |-> region,
     status |-> Head_(url).status, access |-> determine_access(url)]

\* faulty variant: a HEAD that raises ends the probe
check_bucket_no_fallthrough(bucket, region) ==
    LET urls == <<VirtualHostedUrl(bucket, region), PathStyleUrl(bucket, region)>> IN
    IF Qualifies(urls[1]) THEN ProbeRecord(urls[1], bucket, region)
    ELSE IF Head_(urls[1]).kind # "response" THEN None
    ELSE IF Qualifies(urls[2]) THEN ProbeRecord(urls[2], bucket, region)
    ELSE None

check_bucket(bucket, region) ==
    LET urls == <<VirtualHostedUrl(bucket, region), PathStyleUrl(bucket, region)>> IN
    IF Qualifies(urls[1]) THEN ProbeRecord(urls[1], bucket, region)
    ELSE IF Qualifies(urls[2]) THEN ProbeRecord(urls[2], bucket, region)
    ELSE None

(***************************************************************************)
(* Hashes.  MD5 is taken to be collision free on the model's inputs: a     *)
(* hash is the tagged input.                                               *)
(***************************************************************************)
\* faulty variant: the hash is taken of the position of the word in the list
get_domain_hash_of_position(domain) ==
    <<"md5", ToString(CHOOSE i \in DOMAIN wordlist : wordlist[i] = domain)>>

get_domain_hash(domain) == <<"md5", Str(domain)>>

get_bucket_hash(bucket_name, region) == <<"md5", bucket_name \o ":" \o region>>

(***************************************************************************)
(* State tracker: load_domain_state, save_domain_state.                    *)
(***************************************************************************)
Absent == -1

MissingFile ==
    [kind |-> "missing", scanned_domains |-> {}, last_scan_time |-> Absent,
     permutation_level_completed |-> Absent, additional_rounds |-> Absent]

\* a file truncated by open(..., 'w') and not yet, or only partly, written
TruncatedFile == [MissingFile EXCEPT !.kind = "corrupt"]

\* a file that parses, whose top-level value is not an object: state.get
\* raises
WrongShapeFile == [MissingFile EXCEPT !.kind = "json_list"]

\* a file that parses to an object whose scanned_domains is a string: set()
\* of a string is the set of its characters
TextShapeFile(chars) ==
    [MissingFile EXCEPT !.kind = "json_text",
                        !.scanned_domains = {<<"chr", c>> : c \in Range(chars)}]

\* json.load returns a dict
ParsesToObject(file) == file.kind \in {"json", "json_text"}

\* returns <<scanned_domains, last_scan_time>>
load_domain_state ==
    IF ParsesToObject(state_file)
    THEN <<state_file.scanned_domains, state_file.last_scan_time>>
    ELSE <<{}, Absent>>

\* faulty variant: only the domains of the running invocation are dumped
DomainStateDocumentOfRun(domains, last_scan_time) ==
    [kind |-> "json",
     scanned_domains |-> domains \ start_domains,
     last_scan_time |-> last_scan_time,
     permutation_level_completed |-> Absent, additional_rounds |-> Absent]

\* the document save_domain_state dumps
DomainStateDocument(domains, last_scan_time) ==
    [kind |-> "json", scanned_domains |-> domains, last_scan_time |-> last_scan_time,
     permutation_level_completed |-> Absent, additional_rounds |-> Absent]

(***************************************************************************)
(* scan_bucket.                                                            *)
(***************************************************************************)
\* faulty variant: a redirected bucket counts as public
ResultListRedirectsPublic(result) ==
    IF ~result.found THEN "none"
    ELSE IF result.access \in {"public", "accessible", "exists"} THEN "public"
    ELSE IF ~args.public_only THEN "private"
    ELSE "none"

\* faulty variant: the public-only flag is not consulted
ResultListKeepsPrivate(result) ==
    IF ~result.found THEN "none"
    ELSE IF result.access \in {"public", "accessible"} THEN "public"
    ELSE "private"

\* the list a probe result is appended to: "public", "private" or "none"
ResultList(result) ==
    IF ~result.found THEN "none"
    ELSE IF result.access \in {"public", "accessible"} THEN "public"
    ELSE IF ~args.public_only THEN "private"
    ELSE "none"

\* one whole call of scan_bucket with no other thread running, on
\* st = [total_checked, scanned_hashes, public, private, probed]
scan_bucket(st, bucket_name, region) ==
    LET bucket_hash == get_bucket_hash(bucket_name, region) IN
    IF bucket_hash \in st.scanned_hashes THEN st
    ELSE LET result == check_bucket(bucket_name, region) IN
         [total_checked  |-> st.total_checked + 1,
          scanned_hashes |-> st.scanned_hashes \cup {bucket_hash},
          public  |-> IF ResultList(result) = "public"
                      THEN Append(st.public, result) ELSE st.public,
          private |-> IF ResultList(result) = "private"
                      THEN Append(st.private, result) ELSE st.private,
          probed  |-> Append(st.probed, <<bucket_name, region>>)]

\* the submitted calls run one after the other, in submission order
\* (the range lo..hi is split in two, and the first half evaluated before the
\* second is entered, so that the evaluation stays shallow)
RECURSIVE ScanInOrder(_, _, _, _)
ScanInOrder(st, combos, lo, hi) ==
    IF lo > hi THEN st
    ELSE IF lo = hi THEN scan_bucket(st, combos[lo][1], combos[lo][2])
    ELSE LET first == ScanInOrder(st, combos, lo, (lo + hi) \div 2) IN
         IF first.total_checked >= 0
         THEN ScanInOrder(first, combos, ((lo + hi) \div 2) + 1, hi)
         ELSE first

(***************************************************************************)
(* run(): planning.                                                        *)
(***************************************************************************)
NoTasks == <<>>

FreshResults == [public |-> <<>>, private |-> <<>>]

\* the memory of a process that has not started (or has died)
ProcessIdle ==
    /\ pc = "idle"
    /\ permutation_level = args.permutation_level
    /\ scanned_domains = {}
    /\ remaining_domains = <<>>
    /\ chunks = <<>>
    /\ idx = 0
    /\ domains_scanned_this_run = <<>>
    /\ scan_start_time = Absent
    /\ pending_write = MissingFile
    /\ bucket_names = <<>>
    /\ combinations = <<>>
    /\ results = FreshResults
    /\ total_checked = 0
    /\ scanned_hashes = {}
    /\ lock = 0
    /\ task_pc = NoTasks
    /\ task_local = NoTasks
    /\ task_result = NoTasks

\* [domains_to_process[i:i + chunk_size] for i in range(0, len, chunk_size)]
ChunksOf(domains, chunk_size) ==
    [k \in 1..((Len(domains) + chunk_size - 1) \div chunk_size) |->
        SubSeq(domains, (k - 1) * chunk_size + 1, Min(k * chunk_size, Len(domains)))]

\* remaining_domains[:domains_per_hour] when the option is given
DomainsToProcess(remaining) ==
    IF args.domains_per_hour # 0 THEN Prefix(remaining, args.domains_per_hour)
    ELSE remaining

\* faulty variant: the completed set is not consulted
RemainingDomainsUnfiltered(all_words, scanned) == all_words

\* [word for word in all_words if get_domain_hash(word) not in scanned_domains]
RemainingDomains(all_words, scanned) ==
    SelectSeq(all_words, LAMBDA word : get_domain_hash(word) \notin scanned)

\* lines 449-462: cap, split into chunks, start the loop
PlanChunks(remaining) ==
    /\ chunks' = ChunksOf(DomainsToProcess(remaining), args.chunk_size)
    /\ idx' = 0
    /\ scan_start_time' = run
    /\ domains_scanned_this_run' = <<>>
    /\ pc' = IF DomainsToProcess(remaining) = <<>> THEN "finish" ELSE "chunk"

\* faulty variant: a wordlist file that cannot be read counts as empty
WordlistLoadsAnyway == TRUE

\* load_wordlist returns for every file of self.wordlist
WordlistLoads == readable

\* lines 399-402 and 91-93: a wordlist file cannot be read, load_wordlist
\* prints the error and calls sys.exit(1)
LoadFails ==
    /\ pc = "idle"
    /\ run < MaxRuns
    /\ ~readable
    /\ run' = run + 1
    /\ pc' = "exit_1"
    /\ UNCHANGED <<nuclei_vars, store_vars, split_vars, config_vars, disk_vars, run_vars, chunk_vars,
                   start_domains, probes, reprobes, probed_chunks, prev_run>>

\* A new invocation: lines 397-415
RunLoad ==
    /\ pc = "idle"
    /\ run < MaxRuns
    /\ WordlistLoads
    /\ run' = run + 1
    /\ permutation_level' = args.permutation_level
    /\ scanned_domains' = load_domain_state[1]
    /\ remaining_domains' = RemainingDomains(wordlist, load_domain_state[1])
    /\ pc' = "loaded"
    /\ start_domains' = load_domain_state[1]
    /\ probes' = {}
    /\ reprobes' = {}
    /\ probed_chunks' = <<>>
    /\ UNCHANGED <<nuclei_vars, store_vars, split_vars, config_vars, disk_vars, chunks, idx, domains_scanned_this_run,
                   scan_start_time, pending_write, chunk_vars, prev_run>>

\* lines 449-462 when some domain remains
Proceed ==
    /\ pc = "loaded"
    /\ remaining_domains # <<>>
    /\ PlanChunks(remaining_domains)
    /\ UNCHANGED <<nuclei_vars, store_vars, split_vars, config_vars, disk_vars, permutation_level, scanned_domains,
                   remaining_domains, pending_write, chunk_vars, history_vars>>

\* faulty variant: the level is left as it is
EscalatedLevelStuck(level) == level

\* the level the escalation branch moves to
EscalatedLevel(level) == level + 1

\* faulty variant: the escalation branch is taken at every level
CanEscalateAlways(level) == TRUE

\* line 422: `if self.permutation_level < 3`
CanEscalate(level) == level < 3

\* lines 418-438: nothing remains and the level is below 3; the level is
\* raised and the state file is opened for rewriting, which truncates it
EscalateOpen ==
    /\ pc = "loaded"
    /\ remaining_domains = <<>>
    /\ CanEscalate(permutation_level)
    /\ permutation_level' = EscalatedLevel(permutation_level)
    /\ IF ParsesToObject(state_file)
       THEN /\ pending_write' =
                 [state_file EXCEPT
                    !.permutation_level_completed = permutation_level,
                    !.additional_rounds =
                        IF state_file.additional_rounds = Absent THEN 1
                        ELSE state_file.additional_rounds + 1]
            /\ state_file' = TruncatedFile
       ELSE UNCHANGED <<pending_write, state_file>>
    /\ pc' = "escalating"
    /\ UNCHANGED <<nuclei_vars, store_vars, split_vars, config_vars, result_files, scanned_domains, remaining_domains, chunks,
                   idx, domains_scanned_this_run, scan_start_time, chunk_vars,
                   history_vars>>

\* lines 438-444 and 449-462: the rewritten state is dumped, every word is
\* pending again
EscalateDump ==
    /\ pc = "escalating"
    /\ state_file' = IF pending_write.kind = "json" THEN pending_write ELSE state_file
    /\ pending_write' = MissingFile
    /\ remaining_domains' = wordlist
    /\ PlanChunks(wordlist)
    /\ UNCHANGED <<nuclei_vars, store_vars, split_vars, config_vars, result_files, permutation_level, scanned_domains,
                   chunk_vars, history_vars>>

\* lines 445-447: every level is exhausted, run() returns
Exhausted ==
    /\ pc = "loaded"
    /\ remaining_domains = <<>>
    /\ ~CanEscalate(permutation_level)
    /\ pc' = "done"
    /\ UNCHANGED <<nuclei_vars, store_vars, split_vars, config_vars, disk_vars, run_vars, chunk_vars, history_vars>>

(***************************************************************************)
(* run(): the loop over the chunks, and run_chunk.                         *)
(***************************************************************************)
\* list(itertools.product(bucket_names, AWS_REGIONS))
Product(names, regions) ==
    [k \in 1..(Len(names) * Len(regions)) |->
        <<names[((k - 1) \div Len(regions)) + 1], regions[((k - 1) % Len(regions)) + 1]>>]

\* Lists of at most this many names are tried in every order; a longer list
\* in one order (the order of list(set) is not the program's choice).
MaxOrderedNames == 2

\* n elements of S as a list (the first half is taken, and evaluated, before
\* the second)
RECURSIVE TakeSeq(_, _)
TakeSeq(S, n) ==
    IF n = 0 THEN <<>>
    ELSE IF n = 1 THEN <<CHOOSE y \in S : TRUE>>
    ELSE LET first == TakeSeq(S, n \div 2)
             rest == S \ Range(first) IN
         IF Cardinality(rest) >= 0
         THEN first \o TakeSeq(rest, n - (n \div 2))
         ELSE first

SetToSeq(S) == TakeSeq(S, Cardinality(S))

\* faulty variant: names are collected in a list, without the set: repeats survive
NameListsRepeating(names) == {order \o order : order \in Orderings(names)}

NameLists(names) ==
    IF Cardinality(names) <= MaxOrderedNames THEN Orderings(names)
    ELSE {SetToSeq(names)}

CurrentChunk == chunks[idx + 1]

\* faulty variant: the lists and the counter of the previous chunk are kept
ResetForChunkKept(previous) == previous

\* lines 472-473: self.results = {'public': [], 'private': []} and
\* self.total_checked = 0
ResetForChunk(previous) == [results |-> FreshResults, total_checked |-> 0]

\* lines 465-473 and 345-367: names are generated, the result lists and the
\* counter are reset, every (name, region) pair is submitted to the pool
ChunkBegin ==
    /\ pc = "chunk"
    /\ \E names \in NameLists(generate_bucket_names(CurrentChunk, permutation_level,
                                                    environments)) :
          /\ bucket_names' = names
          /\ combinations' = Product(names, Regions)
          /\ task_pc' = [t \in 1..(Len(names) * Len(Regions)) |-> "queued"]
          /\ task_local' = [t \in 1..(Len(names) * Len(Regions)) |-> 0]
          /\ task_result' = [t \in 1..(Len(names) * Len(Regions)) |-> None]
    /\ results' =
          ResetForChunk([results |-> results, total_checked |-> total_checked]).results
    /\ total_checked' =
          ResetForChunk([results |-> results, total_checked |-> total_checked]).total_checked
    /\ scanned_hashes' = {}
    /\ lock' = 0
    /\ pc' = "pool"
    /\ UNCHANGED <<nuclei_vars, store_vars, split_vars, config_vars, disk_vars, run_vars, history_vars>>

Tasks == DOMAIN task_pc

\* a call has returned: after its probe ("done") or without one ("skipped")
Returned(t) == task_pc[t] \in {"done", "skipped"}

\* faulty variant: the pool is left without waiting: every call has been taken
AllTasksStarted == \A t \in DOMAIN task_pc : task_pc[t] # "queued"

\* every future is done (the with block of run_chunk waits for this)
AllTasksDone == \A t \in Tasks : Returned(t)

\* calls that have passed their call of check_bucket
Probed == {t \in Tasks : task_pc[t] \in {"mark_wait", "mark", "append_wait", "append", "done"}}

\* targets of a probe list that occur in S or earlier in the list
Repeated(S, probed) ==
    {probed[i] : i \in {j \in DOMAIN probed :
                          probed[j] \in S \/ \E k \in 1..(j - 1) : probed[k] = probed[j]}}

\* A pool of one worker: the calls run to completion one after the other
PoolRunSequential ==
    /\ pc = "pool"
    /\ args.max_workers = 1
    /\ \A t \in Tasks : task_pc[t] = "queued"
    /\ LET st == ScanInOrder([total_checked |-> total_checked,
                              scanned_hashes |-> scanned_hashes,
                              public |-> results.public, private |-> results.private,
                              probed |-> <<>>], combinations, 1, Len(combinations))
       IN /\ total_checked' = st.total_checked
          /\ scanned_hashes' = st.scanned_hashes
          /\ results' = [public |-> st.public, private |-> st.private]
          /\ probes' = probes \cup Range(st.probed)
          /\ reprobes' = reprobes \cup Repeated(probes, st.probed)
    /\ task_pc' = [t \in Tasks |-> "done"]
    /\ UNCHANGED <<nuclei_vars, store_vars, split_vars, config_vars, disk_vars, pc, run_vars, bucket_names, combinations, lock,
                   task_local, task_result, run, start_domains, probed_chunks, prev_run>>

(***************************************************************************)
(* scan_bucket step by step, as the worker threads of the pool run it.     *)
(***************************************************************************)
\* faulty variant: the lock is not taken
LockIgnored(t) == TRUE

\* `with self.lock:` can be entered
LockAvailable(t) == lock = 0

\* a worker thread is free and every earlier submission has been taken
CanStart(t) ==
    /\ task_pc[t] = "queued"
    /\ \A u \in Tasks : u < t => task_pc[u] # "queued"
    /\ Cardinality({u \in Tasks : task_pc[u] \notin {"queued", "done", "skipped"}})
         < args.max_workers

TaskHash(t) == get_bucket_hash(combinations[t][1], combinations[t][2])

\* lines 282-287: a worker takes the call; the hash is looked up
TaskStart(t) ==
    /\ args.max_workers > 1
    /\ CanStart(t)
    /\ task_pc' = [task_pc EXCEPT ![t] = IF TaskHash(t) \in scanned_hashes
                                         THEN "skipped" ELSE "inc_wait"]
    /\ UNCHANGED <<nuclei_vars, store_vars, split_vars, config_vars, disk_vars, pc, run_vars, bucket_names, combinations,
                   results, total_checked, scanned_hashes, lock, task_local, task_result,
                   history_vars>>

\* lines 289-290: the lock is taken and the counter read
IncrementLoad(t) ==
    /\ task_pc[t] = "inc_wait"
    /\ LockAvailable(t)
    /\ lock' = t
    /\ task_local' = [task_local EXCEPT ![t] = total_checked]
    /\ task_pc' = [task_pc EXCEPT ![t] = "inc"]
    /\ UNCHANGED <<nuclei_vars, store_vars, split_vars, config_vars, disk_vars, pc, run_vars, bucket_names, combinations,
                   results, total_checked, scanned_hashes, task_result, history_vars>>

\* faulty variant: the lock is kept after the increment
ReleaseLockLate(t) == t

\* line 291: the with block of the increment is left, nobody owns the lock
ReleaseLock(t) == 0

\* lines 290-291: the counter is written back, the lock released
IncrementStore(t) ==
    /\ task_pc[t] = "inc"
    /\ total_checked' = task_local[t] + 1
    /\ task_local' = [task_local EXCEPT ![t] = task_local[t] + 1]
    /\ lock' = ReleaseLock(t)
    /\ task_pc' = [task_pc EXCEPT ![t] = "probe"]
    /\ UNCHANGED <<nuclei_vars, store_vars, split_vars, config_vars, disk_vars, pc, run_vars, bucket_names, combinations,
                   results, scanned_hashes, task_result, history_vars>>

\* line 296: check_bucket runs, with no lock held
Probe(t) ==
    /\ task_pc[t] = "probe"
    /\ task_result' = [task_result EXCEPT
                         ![t] = check_bucket(combinations[t][1], combinations[t][2])]
    /\ probes' = probes \cup {combinations[t]}
    /\ reprobes' = reprobes \cup ({combinations[t]} \cap probes)
    /\ task_pc' = [task_pc EXCEPT ![t] = "mark_wait"]
    /\ UNCHANGED <<nuclei_vars, store_vars, split_vars, config_vars, disk_vars, pc, run_vars, bucket_names, combinations,
                   results, total_checked, scanned_hashes, lock, task_local, run,
                   start_domains, probed_chunks, prev_run>>

\* line 298: the lock is taken
MarkAcquire(t) ==
    /\ task_pc[t] = "mark_wait"
    /\ LockAvailable(t)
    /\ lock' = t
    /\ task_pc' = [task_pc EXCEPT ![t] = "mark"]
    /\ UNCHANGED <<nuclei_vars, store_vars, split_vars, config_vars, disk_vars, pc, run_vars, bucket_names, combinations,
                   results, total_checked, scanned_hashes, task_local, task_result,
                   history_vars>>

\* lines 299-319: the hash is recorded, the lock released; a result that no
\* list takes ends the call
MarkHash(t) ==
    /\ task_pc[t] = "mark"
    /\ scanned_hashes' = scanned_hashes \cup {TaskHash(t)}
    /\ lock' = 0
    /\ task_pc' = [task_pc EXCEPT ![t] = IF ResultList(task_result[t]) = "none"
                                         THEN "done" ELSE "append_wait"]
    /\ UNCHANGED <<nuclei_vars, store_vars, split_vars, config_vars, disk_vars, pc, run_vars, bucket_names, combinations,
                   results, total_checked, task_local, task_result, history_vars>>

\* lines 307 and 312: the lock is taken
AppendAcquire(t) ==
    /\ task_pc[t] = "append_wait"
    /\ LockAvailable(t)
    /\ lock' = t
    /\ task_pc' = [task_pc EXCEPT ![t] = "append"]
    /\ UNCHANGED <<nuclei_vars, store_vars, split_vars, config_vars, disk_vars, pc, run_vars, bucket_names, combinations,
                   results, total_checked, scanned_hashes, task_local, task_result,
                   history_vars>>

\* faulty variant: the list is assigned instead of appended to
AppendResultReplacing(t) ==
    /\ task_pc[t] = "append"
    /\ results' = [results EXCEPT ![ResultList(task_result[t])] = <<task_result[t]>>]
    /\ lock' = 0
    /\ task_pc' = [task_pc EXCEPT ![t] = "done"]
    /\ UNCHANGED <<nuclei_vars, store_vars, split_vars, config_vars, disk_vars, pc, run_vars, bucket_names, combinations,
                   total_checked, scanned_hashes, task_local, task_result, history_vars>>

\* lines 308-309 and 313-314: the result is appended, the lock released
AppendResult(t) ==
    /\ task_pc[t] = "append"
    /\ results' = [results EXCEPT
                     ![ResultList(task_result[t])] = Append(@, task_result[t])]
    /\ lock' = 0
    /\ task_pc' = [task_pc EXCEPT ![t] = "done"]
    /\ UNCHANGED <<nuclei_vars, store_vars, split_vars, config_vars, disk_vars, pc, run_vars, bucket_names, combinations,
                   total_checked, scanned_hashes, task_local, task_result, history_vars>>

\* lines 363-382: the with block ends once every future is done
PoolJoin ==
    /\ pc = "pool"
    /\ AllTasksDone
    /\ pc' = "save_results"
    /\ probed_chunks' = Append(probed_chunks,
                                [words |-> CurrentChunk, level |-> permutation_level])
    /\ UNCHANGED <<nuclei_vars, store_vars, split_vars, config_vars, disk_vars, run_vars, chunk_vars, run, start_domains,
                   probes, reprobes, prev_run>>

\* domain.replace('/', '_').replace(':', '_') leaves the model's words as they are
ChunkFileName == <<Str(CurrentChunk[1]), idx + 1>>

ChunkFileDocument ==
    [chunk_id |-> idx + 1, domain |-> Str(CurrentChunk[1]), results |-> results,
     stats |-> [total_checked |-> total_checked,
                public_found |-> Len(results.public),
                private_found |-> Len(results.private)]]

\* save_chunk_results, lines 321-343, and the return of run_chunk
SaveChunkResults ==
    /\ pc = "save_results"
    /\ result_files' = [f \in DOMAIN result_files \cup {ChunkFileName} |->
                          IF f = ChunkFileName THEN ChunkFileDocument ELSE result_files[f]]
    /\ pc' = "mark"
    /\ UNCHANGED <<nuclei_vars, store_vars, split_vars, config_vars, state_file, run_vars, chunk_vars, history_vars>>

\* lines 477-484, first half: the chunk's words are marked and
\* save_domain_state opens the state file for writing, which truncates it
MarkAndOpen ==
    /\ pc = "mark"
    /\ scanned_domains' = scanned_domains \cup {get_domain_hash(CurrentChunk[i]) :
                                                  i \in DOMAIN CurrentChunk}
    /\ domains_scanned_this_run' = domains_scanned_this_run \o CurrentChunk
    /\ pending_write' = DomainStateDocument(scanned_domains', scan_start_time)
    /\ state_file' = TruncatedFile
    /\ pc' = "save_state"
    /\ UNCHANGED <<nuclei_vars, store_vars, split_vars, config_vars, result_files, permutation_level, remaining_domains, chunks,
                   idx, scan_start_time, chunk_vars, history_vars>>

\* lines 212-217 and 486: the document is dumped, the file closed; next chunk
SaveDump ==
    /\ pc = "save_state"
    /\ state_file' = pending_write
    /\ pending_write' = MissingFile
    /\ idx' = idx + 1
    /\ pc' = IF idx + 1 < Len(chunks) THEN "chunk" ELSE "finish"
    /\ UNCHANGED <<nuclei_vars, store_vars, split_vars, config_vars, result_files, permutation_level, scanned_domains,
                   remaining_domains, chunks, domains_scanned_this_run, scan_start_time,
                   chunk_vars, history_vars>>

\* a result file cut short by a failed json.dump
TruncatedChunkFile ==
    [chunk_id |-> Absent, domain |-> "", results |-> FreshResults,
     stats |-> [total_checked |-> 0, public_found |-> 0, private_found |-> 0]]

\* faulty variant: the error of a failed write is raised again
AfterWriteErrorRaise(next_pc) == "exit_1"

\* lines 342-343 and 218-219: the except clause prints the error and the
\* method returns
AfterWriteError(next_pc) == next_pc

\* save_chunk_results when open() or json.dump raises: no file, or a file
\* cut short
SaveChunkResultsFails ==
    /\ pc = "save_results"
    /\ \/ UNCHANGED result_files
       \/ result_files' = [f \in DOMAIN result_files \cup {ChunkFileName} |->
                             IF f = ChunkFileName THEN TruncatedChunkFile
                             ELSE result_files[f]]
    /\ pc' = AfterWriteError("mark")
    /\ UNCHANGED <<nuclei_vars, store_vars, split_vars, config_vars, state_file, run_vars, chunk_vars,
                   history_vars>>

\* lines 477-486 when open() of the state file raises: the words are marked
\* in memory, the file is left as it is
MarkAndOpenFails ==
    /\ pc = "mark"
    /\ scanned_domains' = scanned_domains \cup {get_domain_hash(CurrentChunk[i]) :
                                                  i \in DOMAIN CurrentChunk}
    /\ domains_scanned_this_run' = domains_scanned_this_run \o CurrentChunk
    /\ idx' = idx + 1
    /\ pc' = AfterWriteError(IF idx + 1 < Len(chunks) THEN "chunk" ELSE "finish")
    /\ UNCHANGED <<nuclei_vars, store_vars, split_vars, config_vars, disk_vars, permutation_level,
                   remaining_domains, chunks, scan_start_time, pending_write, chunk_vars,
                   history_vars>>

\* lines 212-219 and 486 when json.dump raises: the file stays cut short
SaveDumpFails ==
    /\ pc = "save_state"
    /\ pending_write' = MissingFile
    /\ idx' = idx + 1
    /\ pc' = AfterWriteError(IF idx + 1 < Len(chunks) THEN "chunk" ELSE "finish")
    /\ UNCHANGED <<nuclei_vars, store_vars, split_vars, config_vars, disk_vars, permutation_level,
                   scanned_domains, remaining_domains, chunks, domains_scanned_this_run,
                   scan_start_time, chunk_vars, history_vars>>

\* lines 488-494: the summary is printed and run() returns
Finish ==
    /\ pc = "finish"
    /\ pc' = "done"
    /\ UNCHANGED <<nuclei_vars, store_vars, split_vars, config_vars, disk_vars, run_vars, chunk_vars, history_vars>>

\* the memory of the process is gone
ProcessGone ==
    /\ pc' = "idle"
    /\ permutation_level' = args.permutation_level
    /\ scanned_domains' = {}
    /\ remaining_domains' = <<>>
    /\ chunks' = <<>>
    /\ idx' = 0
    /\ domains_scanned_this_run' = <<>>
    /\ scan_start_time' = Absent
    /\ pending_write' = MissingFile
    /\ bucket_names' = <<>>
    /\ combinations' = <<>>
    /\ results' = FreshResults
    /\ total_checked' = 0
    /\ scanned_hashes' = {}
    /\ lock' = 0
    /\ task_pc' = NoTasks
    /\ task_local' = NoTasks
    /\ task_result' = NoTasks
    /\ start_domains' = {}
    /\ probes' = {}
    /\ reprobes' = {}
    /\ probed_chunks' = <<>>

\* the process ends after run() has returned
Exit ==
    /\ pc = "done"
    /\ ProcessGone
    /\ prev_run' = [crashed |-> FALSE, probed_chunks |-> probed_chunks]
    /\ UNCHANGED <<nuclei_vars, store_vars, split_vars, config_vars, disk_vars, run>>

\* the process is killed at any point of a run
Crash ==
    /\ pc \notin {"idle", "done"}
    /\ ProcessGone
    /\ prev_run' = [crashed |-> TRUE, probed_chunks |-> probed_chunks]
    /\ UNCHANGED <<nuclei_vars, store_vars, split_vars, config_vars, disk_vars, run>>

(***************************************************************************)
(* split_buckets_by_size of merge_results.py and of validate_buckets.py.   *)
(* A record stands for the bytes json.dumps(..., indent=2) prints for it   *)
(* as an element of a bucket list (its indentation included).              *)
(***************************************************************************)
MaxPublic == 51

MaxPrivate == 2

MinCap == 1000

LargeRecord == 400

AVERAGE_BUCKET_SIZE_BYTES == 250

SIZE_CHECK_FREQUENCY == 100

RecordSizes == {AVERAGE_BUCKET_SIZE_BYTES, LargeRecord}

Caps == {MinCap, 10 * MinCap, 50 * MinCap}

\* lists of n records of one size, and lists of n records of growing sizes
\* (no two records of such a list are equal)
BucketLists(n_max) ==
    {[i \in 1..n |-> size] : n \in 0..n_max, size \in RecordSizes}
      \cup {[i \in 1..n |-> AVERAGE_BUCKET_SIZE_BYTES + i] : n \in 0..n_max}

\* {"buckets": {"public": [], "private": []}}
EmptyFileData == [public |-> <<>>, private |-> <<>>]

\* bytes of one list: "[]", or "[", a line per record with "," between
\* records, and the closing line
ListSize(list) == IF list = <<>> THEN 2 ELSE SeqSum(list) + 2 * Len(list) + 6

\* len(json.dumps(data, indent=2).encode('utf-8')); the empty document takes 58
estimate_json_size(data) == 54 + ListSize(data.public) + ListSize(data.private)

\* max(1, max_size // (250 * 100)) in merge, max(50, max_size // (250 * 50))
\* in validate
check_interval ==
    IF script = "merge"
    THEN Max(1, max_size \div (AVERAGE_BUCKET_SIZE_BYTES * SIZE_CHECK_FREQUENCY))
    ELSE Max(50, max_size \div (AVERAGE_BUCKET_SIZE_BYTES * 50))

HasData(data) == data.public # <<>> \/ data.private # <<>>

\* faulty variant: the file over the threshold is replaced without being saved
check_and_rotate_dropping(files, current) ==
    IF estimate_json_size(current) * 100 > max_size * 95
    THEN [files_data |-> files, current_file_data |-> EmptyFileData]
    ELSE [files_data |-> files, current_file_data |-> current]

\* the size check: beyond 95% of max_size the current file is saved and a
\* new one started (current_size > max_size * 0.95, in integers)
check_and_rotate_if_needed(files, current) ==
    IF estimate_json_size(current) * 100 > max_size * 95
    THEN [files_data |-> IF HasData(current) THEN Append(files, current) ELSE files,
          current_file_data |-> EmptyFileData]
    ELSE [files_data |-> files, current_file_data |-> current]

\* one iteration of either loop: append, count, check every check_interval
LoopBody(added) ==
    LET after == IF (bucket_count + 1) % check_interval = 0
                 THEN check_and_rotate_if_needed(files_data, added)
                 ELSE [files_data |-> files_data, current_file_data |-> added] IN
    /\ bucket_count' = bucket_count + 1
    /\ files_data' = after.files_data
    /\ current_file_data' = after.current_file_data
    /\ cursor' = cursor + 1

\* for bucket in public_buckets: ...
AddPublic ==
    /\ split_pc = "public"
    /\ cursor < Len(public_buckets)
    /\ LoopBody([current_file_data EXCEPT
                   !.public = Append(@, public_buckets[cursor + 1])])
    /\ UNCHANGED <<script, public_buckets, private_buckets, max_size, split_pc>>
    /\ UNCHANGED <<nuclei_vars, config_vars, disk_vars, pc, run_vars, chunk_vars, history_vars,
                   store_vars>>

\* between the loops: merge resets bucket_count, validate keeps counting
PublicDone ==
    /\ split_pc = "public"
    /\ cursor = Len(public_buckets)
    /\ split_pc' = "private"
    /\ cursor' = 0
    /\ bucket_count' = IF script = "merge" THEN 0 ELSE bucket_count
    /\ UNCHANGED <<script, public_buckets, private_buckets, max_size, files_data,
                   current_file_data>>
    /\ UNCHANGED <<nuclei_vars, config_vars, disk_vars, pc, run_vars, chunk_vars, history_vars,
                   store_vars>>

\* for bucket in private_buckets: ...
AddPrivate ==
    /\ split_pc = "private"
    /\ cursor < Len(private_buckets)
    /\ LoopBody([current_file_data EXCEPT
                   !.private = Append(@, private_buckets[cursor + 1])])
    /\ UNCHANGED <<script, public_buckets, private_buckets, max_size, split_pc>>
    /\ UNCHANGED <<nuclei_vars, config_vars, disk_vars, pc, run_vars, chunk_vars, history_vars,
                   store_vars>>

\* the last file is added if it has data; return files_data
SplitReturn ==
    /\ split_pc = "private"
    /\ cursor = Len(private_buckets)
    /\ files_data' = IF HasData(current_file_data)
                     THEN Append(files_data, current_file_data)
                     ELSE files_data
    /\ split_pc' = "returned"
    /\ UNCHANGED <<script, public_buckets, private_buckets, max_size,
                   current_file_data, bucket_count, cursor>>
    /\ UNCHANGED <<nuclei_vars, config_vars, disk_vars, pc, run_vars, chunk_vars, history_vars,
                   store_vars>>

\* no split is running
SplitIdle ==
    /\ script = "none"
    /\ public_buckets = <<>>
    /\ private_buckets = <<>>
    /\ max_size = 0
    /\ files_data = <<>>
    /\ current_file_data = EmptyFileData
    /\ bucket_count = 0
    /\ split_pc = "idle"
    /\ cursor = 0

(***************************************************************************)
(* The aggregate store: merge_results.py and validate_buckets.py.          *)
(* A stored record is [url, status, access, timestamp]; a file is          *)
(* [kind, public, private], kind "json" for a document json.load accepts   *)
(* and "corrupt" for one it rejects (an empty or half-written file).       *)
(***************************************************************************)
MaxStoreList == 2

MaxBatchList == 1

MaxBatchFiles == 1

\* the URLs the model's records carry: one per answer of NetMixed
StoreUrls ==
    {VirtualHostedUrl("a", Regions[1]), VirtualHostedUrl("a", Regions[NumRegions]),
     PathStyleUrl("a", Regions[NumRegions]), VirtualHostedUrl("b", Regions[1])}

\* a record as the scanner stored it at time t
StoredRecord(url, access, t) ==
    [url |-> url, status |-> IF url = VirtualHostedUrl("b", Regions[1]) THEN 301 ELSE 200,
     access |-> access, timestamp |-> t]

\* lists of at most n records of one access kind and one time, no URL twice
RecordLists(n, access, t) ==
    {list \in UNION {[1..k -> {StoredRecord(u, access, t) : u \in StoreUrls}] : k \in 0..n} :
        \A i, j \in DOMAIN list : i # j => list[i] # list[j]}

JsonFile(public, private) == [kind |-> "json", public |-> public, private |-> private]

CorruptFile == [kind |-> "corrupt", public |-> <<>>, private |-> <<>>]

\* the aggregate as an earlier merge left it: no file, or buckets.json
AggregateStates ==
    {<<>>, (0 :> CorruptFile)}
      \cup {(0 :> JsonFile(p, v)) : p \in RecordLists(MaxStoreList, "public", 1),
                                    v \in RecordLists(MaxStoreList, "private", 1)}

\* the chunk result files the scanner left
BatchStates ==
    UNION {[1..k -> {CorruptFile}
                      \cup {JsonFile(p, v) : p \in RecordLists(MaxBatchList, "public", 2),
                                             v \in RecordLists(MaxBatchList, "private", 2)}]
             : k \in 0..MaxBatchFiles}

\* find_existing_bucket_files / find_bucket_files: buckets.json if it exists,
\* then buckets_1.json, buckets_2.json, ... up to the first missing one
find_bucket_files ==
    {i \in DOMAIN aggregate_files :
        i = 0 \/ \A j \in 1..i : j \in DOMAIN aggregate_files}

RECURSIVE ExtendFrom(_, _, _)
\* the lists `kind` of the readable files among files[lo], files[lo+1], ...
ExtendFrom(files, indices, kind) ==
    IF indices = {} THEN <<>>
    ELSE LET i == CHOOSE k \in indices : \A l \in indices : k <= l IN
         (IF files[i].kind = "json" THEN files[i][kind] ELSE <<>>)
           \o ExtendFrom(files, indices \ {i}, kind)

\* load_existing_buckets, and the loading loop of validate_and_update_buckets
load_existing_buckets ==
    [public  |-> ExtendFrom(aggregate_files, find_bucket_files, "public"),
     private |-> ExtendFrom(aggregate_files, find_bucket_files, "private")]

\* the loop over sorted(json_files) of merge_json_files
load_new_buckets ==
    [public  |-> ExtendFrom(batch_files, DOMAIN batch_files, "public"),
     private |-> ExtendFrom(batch_files, DOMAIN batch_files, "private")]

\* faulty variant: a URL already in the dictionary keeps its record
AssignUniqueKeepsOld(old, bucket) == old

\* unique_public[url] = bucket, for a URL already in the dictionary
AssignUnique(old, bucket) == bucket

RECURSIVE UniqueByUrl(_)
\* unique[url] = bucket for every bucket with a url, then list(unique.values()):
\* the place of the first occurrence, the value of the last
UniqueByUrl(buckets) ==
    IF buckets = <<>> THEN <<>>
    ELSE LET before == UniqueByUrl(SubSeq(buckets, 1, Len(buckets) - 1))
             bucket == buckets[Len(buckets)] IN
         IF bucket.url = "" THEN before
         ELSE IF \E i \in DOMAIN before : before[i].url = bucket.url
         THEN [i \in DOMAIN before |->
                  IF before[i].url = bucket.url THEN AssignUnique(before[i], bucket)
                  ELSE before[i]]
         ELSE Append(before, bucket)

RECURSIVE SortByTimestamp(_)
\* sorted(..., key=lambda x: x.get('timestamp', '')): stable
SortByTimestamp(buckets) ==
    IF buckets = <<>> THEN <<>>
    ELSE LET before == SortByTimestamp(SubSeq(buckets, 1, Len(buckets) - 1))
             bucket == buckets[Len(buckets)]
             k == Cardinality({i \in DOMAIN before :
                                 before[i].timestamp <= bucket.timestamp}) IN
         SubSeq(before, 1, k) \o <<bucket>> \o SubSeq(before, k + 1, Len(before))

\* split_buckets_by_size(public, private) with the default max_size, for lists
\* too short for a size check (check_interval is 838 in merge and 1677 in
\* validate at 20 MB): one file if there is a record, none otherwise
SplitDefault(public, private) ==
    IF public = <<>> /\ private = <<>> THEN <<>>
    ELSE <<JsonFile(public, private)>>

\* faulty variant: every answer counts as alive, whatever its status
validate_bucket_any_status(bucket) ==
    IF bucket.url = "" THEN [bucket |-> bucket, is_valid |-> FALSE]
    ELSE IF Head_(bucket.url).kind = "response"
    THEN [bucket |-> [bucket EXCEPT !.timestamp = clock, !.status = Head_(bucket.url).status],
          is_valid |-> TRUE]
    ELSE [bucket |-> bucket, is_valid |-> FALSE]

\* validate_bucket: (bucket, is_valid); an alive bucket gets the time and the
\* status of the re-probe
validate_bucket(bucket) ==
    IF bucket.url = "" THEN [bucket |-> bucket, is_valid |-> FALSE]
    ELSE IF Head_(bucket.url).kind = "response" /\ Head_(bucket.url).status = 200
    THEN [bucket |-> [bucket EXCEPT !.timestamp = clock, !.status = 200],
          is_valid |-> TRUE]
    ELSE [bucket |-> bucket, is_valid |-> FALSE]

\* validate_buckets_parallel: the alive buckets in the order their futures
\* complete (any order), and the counts
validate_buckets_parallel(buckets) ==
    LET alive == {i \in DOMAIN buckets : validate_bucket(buckets[i]).is_valid} IN
    {[alive_buckets |-> [k \in DOMAIN order |-> validate_bucket(buckets[order[k]]).bucket],
      stats |-> [total |-> Len(buckets), alive |-> Cardinality(alive),
                 dead |-> Len(buckets) - Cardinality(alive), errors |-> 0]]
       : order \in Orderings(alive)}

NoStats == [total |-> 0, alive |-> 0, dead |-> 0, errors |-> 0]

\* the records of the readable bucket files on disk
RecordsOnDisk ==
    UNION {Range(aggregate_files[i].public) \cup Range(aggregate_files[i].private) :
             i \in {j \in DOMAIN aggregate_files : aggregate_files[j].kind = "json"}}

\* the directory without the files of the given indices
Unlink(files, indices) == [i \in (DOMAIN files) \ indices |-> files[i]]

\* merge_json_files up to the split: exit when there is no chunk file, else
\* load, combine, deduplicate by URL per list, sort, split
MergeStart ==
    /\ stage = "merge"
    /\ stage_pc = "start"
    /\ stored_at_start' = RecordsOnDisk
    /\ IF batch_files = <<>>
       THEN /\ stage_pc' = "exited"
            /\ UNCHANGED <<old_bucket_files, new_files>>
       ELSE /\ new_files' =
                 SplitDefault(
                    SortByTimestamp(UniqueByUrl(load_existing_buckets.public
                                                  \o load_new_buckets.public)),
                    SortByTimestamp(UniqueByUrl(load_existing_buckets.private
                                                  \o load_new_buckets.private)))
            /\ old_bucket_files' = find_bucket_files
            /\ stage_pc' = "write"
    /\ UNCHANGED <<aggregate_files, batch_files, stage, written, stats, clock>>
    /\ UNCHANGED <<nuclei_vars, config_vars, disk_vars, pc, run_vars, chunk_vars, history_vars,
                   split_vars>>

\* validate_and_update_buckets up to the split: exit when there is no bucket
\* file, else load, re-probe both lists, sort, split; an empty file if nothing
\* is alive
ValidateStart ==
    /\ stage = "validate"
    /\ stage_pc = "start"
    /\ stored_at_start' = RecordsOnDisk
    /\ IF find_bucket_files = {}
       THEN /\ stage_pc' = "exited"
            /\ UNCHANGED <<old_bucket_files, new_files, stats>>
       ELSE /\ \E pub \in validate_buckets_parallel(load_existing_buckets.public),
                  priv \in validate_buckets_parallel(load_existing_buckets.private) :
                 /\ stats' = [public |-> pub.stats, private |-> priv.stats]
                 /\ new_files' =
                      LET split == SplitDefault(SortByTimestamp(pub.alive_buckets),
                                                SortByTimestamp(priv.alive_buckets))
                      IN IF split = <<>> THEN <<JsonFile(<<>>, <<>>)>> ELSE split
            /\ old_bucket_files' = find_bucket_files
            /\ stage_pc' = "delete_old"
    /\ clock' = clock + 1
    /\ UNCHANGED <<aggregate_files, batch_files, stage, written>>
    /\ UNCHANGED <<nuclei_vars, config_vars, disk_vars, pc, run_vars, chunk_vars, history_vars,
                   split_vars>>

\* validate: "Delete old bucket files first"
ValidateDeleteOld ==
    /\ stage_pc = "delete_old"
    /\ aggregate_files' = Unlink(aggregate_files, old_bucket_files)
    /\ stage_pc' = "write"
    /\ UNCHANGED <<batch_files, stage, old_bucket_files, new_files, written, stats,
                   clock, stored_at_start>>
    /\ UNCHANGED <<nuclei_vars, config_vars, disk_vars, pc, run_vars, chunk_vars, history_vars,
                   split_vars>>

\* open(output_path, 'w'): the file of index `written` exists and is empty
WriteOpen ==
    /\ stage_pc = "write"
    /\ written < Len(new_files)
    /\ aggregate_files' = (written :> CorruptFile) @@ aggregate_files
    /\ stage_pc' = "dump"
    /\ UNCHANGED <<batch_files, stage, old_bucket_files, new_files, written, stats,
                   clock, stored_at_start>>
    /\ UNCHANGED <<nuclei_vars, config_vars, disk_vars, pc, run_vars, chunk_vars, history_vars,
                   split_vars>>

\* json.dump(file_data, f, indent=2) and the close of the file
WriteDump ==
    /\ stage_pc = "dump"
    /\ aggregate_files' = (written :> new_files[written + 1]) @@ aggregate_files
    /\ written' = written + 1
    /\ stage_pc' = "write"
    /\ UNCHANGED <<batch_files, stage, old_bucket_files, new_files, stats, clock,
                   stored_at_start>>
    /\ UNCHANGED <<nuclei_vars, config_vars, disk_vars, pc, run_vars, chunk_vars, history_vars,
                   split_vars>>

\* merge: the old bucket files that were not just written are deleted
MergeDeleteOld ==
    /\ stage = "merge"
    /\ stage_pc = "write"
    /\ written = Len(new_files)
    /\ aggregate_files' = Unlink(aggregate_files, old_bucket_files \ (0..(written - 1)))
    /\ stage_pc' = "delete_sources"
    /\ UNCHANGED <<batch_files, stage, old_bucket_files, new_files, written, stats,
                   clock, stored_at_start>>
    /\ UNCHANGED <<nuclei_vars, config_vars, disk_vars, pc, run_vars, chunk_vars, history_vars,
                   split_vars>>

\* merge: the merged chunk files are deleted
MergeDeleteSources ==
    /\ stage_pc = "delete_sources"
    /\ batch_files' = <<>>
    /\ stage_pc' = "done"
    /\ UNCHANGED <<aggregate_files, stage, old_bucket_files, new_files, written, stats,
                   clock, stored_at_start>>
    /\ UNCHANGED <<nuclei_vars, config_vars, disk_vars, pc, run_vars, chunk_vars, history_vars,
                   split_vars>>

\* validate: every file is written, the summary is printed
ValidateFinish ==
    /\ stage = "validate"
    /\ stage_pc = "write"
    /\ written = Len(new_files)
    /\ stage_pc' = "done"
    /\ UNCHANGED <<aggregate_files, batch_files, stage, old_bucket_files, new_files,
                   written, stats, clock, stored_at_start>>
    /\ UNCHANGED <<nuclei_vars, config_vars, disk_vars, pc, run_vars, chunk_vars, history_vars,
                   split_vars>>

\* the script dies with work left: it is killed, or a write raises (the
\* writes are in no try block)
StageKilled ==
    /\ \/ stage_pc \in {"delete_old", "dump", "delete_sources"}
       \/ stage_pc = "write" /\ (written < Len(new_files) \/ stage = "merge")
    /\ stage_pc' = "killed"
    /\ UNCHANGED <<aggregate_files, batch_files, stage, old_bucket_files, new_files,
                   written, stats, clock, stored_at_start>>
    /\ UNCHANGED <<nuclei_vars, config_vars, disk_vars, pc, run_vars, chunk_vars, history_vars,
                   split_vars>>

\* neither script runs
StoreIdle ==
    /\ aggregate_files = <<>>
    /\ batch_files = <<>>
    /\ stage = "none"
    /\ stage_pc = "idle"
    /\ old_bucket_files = {}
    /\ new_files = <<>>
    /\ written = 0
    /\ stats = [public |-> NoStats, private |-> NoStats]
    /\ clock = 3
    /\ stored_at_start = {}

(***************************************************************************)
(* nuclei_scan.py: one program is scanned per invocation; the programs     *)
(* already scanned are kept in state/nuclei_state.json.                    *)
(***************************************************************************)
\* Longest program list.
MaxPrograms == 3

\* Invocations of nuclei_scan.py in one behaviour.
MaxScans == 5

\* the programs of the model; two of them have the same platform:name id
ModelPrograms ==
    {[platform |-> "h", name |-> "a"], [platform |-> "h", name |-> "b"],
     [platform |-> "h", name |-> ":a"], [platform |-> "h:", name |-> "a"]}

\* program_id = f"{program['platform']}:{program['name']}"
ProgramId(program) == program.platform \o ":" \o program.name

\* the state file does not exist ("missing"), or holds no JSON document
\* ("corrupt")
NoNucleiState(kind) == [kind |-> kind, scanned_programs |-> {}, last_scan |-> {}]

\* {'scanned_programs': [], 'last_scan': {}}; last_scan is kept as the set of
\* its keys
EmptyNucleiState == [kind |-> "json", scanned_programs |-> {}, last_scan |-> {}]

\* load_state: the document of the file, or the empty state if the file is
\* missing or cannot be parsed
load_state == IF nuclei_state.kind = "json" THEN nuclei_state ELSE EmptyNucleiState

\* the loop of main over programs: the place of the first program whose id
\* is not in scanned, 0 if there is none
NextUnscanned(scanned) ==
    IF \E i \in DOMAIN programs : ProgramId(programs[i]) \notin scanned
    THEN CHOOSE i \in DOMAIN programs :
            /\ ProgramId(programs[i]) \notin scanned
            /\ \A k \in 1..(i - 1) : ProgramId(programs[k]) \in scanned
    ELSE 0

\* what main has decided when process_program is called: the program to
\* scan, the state dictionary and the set scanned; when every program is in
\* scanned the dictionary is replaced by an empty one and the first program
\* is taken, and the set scanned stays as it was loaded
ScanPlan ==
    LET scanned == load_state.scanned_programs
        reset == NextUnscanned(scanned) = 0 IN
    [program |-> IF reset THEN 1 ELSE NextUnscanned(scanned),
     reset   |-> reset,
     state   |-> IF reset THEN EmptyNucleiState ELSE load_state,
     scanned |-> scanned]

\* "Update state": the id is added to scanned, the dictionary gets
\* list(scanned) and the time of this scan, save_state dumps it
UpdatedState(plan) ==
    LET program_id == ProgramId(programs[plan.program]) IN
    [kind |-> "json",
     scanned_programs |-> plan.scanned \cup {program_id},
     last_scan |-> plan.state.last_scan \cup {program_id}]

LogEntry(plan, recorded) ==
    [program |-> plan.program, id |-> ProgramId(programs[plan.program]),
     reset |-> plan.reset, recorded |-> recorded]

\* one invocation of main that reaches its end
NucleiScan ==
    /\ Len(scan_log) < MaxScans
    /\ programs # <<>>
    /\ nuclei_state' = UpdatedState(ScanPlan)
    /\ scan_log' = Append(scan_log, LogEntry(ScanPlan, TRUE))
    /\ UNCHANGED <<programs, store_vars, split_vars, config_vars, disk_vars, pc, run_vars,
                   chunk_vars, history_vars>>

\* one invocation in which process_program or save_results raises (or the
\* process is killed) before save_state: the state file is as it was
NucleiScanFails ==
    /\ Len(scan_log) < MaxScans
    /\ programs # <<>>
    /\ scan_log' = Append(scan_log, LogEntry(ScanPlan, FALSE))
    /\ UNCHANGED <<programs, nuclei_state, store_vars, split_vars, config_vars, disk_vars,
                   pc, run_vars, chunk_vars, history_vars>>

\* one invocation on an empty program list: "No programs to scan", exit 0
NucleiNothingToScan ==
    /\ Len(scan_log) < MaxScans
    /\ programs = <<>>
    /\ scan_log' = Append(scan_log, [program |-> 0, id |-> "", reset |-> TRUE,
                                     recorded |-> FALSE])
    /\ UNCHANGED <<programs, nuclei_state, store_vars, split_vars, config_vars, disk_vars,
                   pc, run_vars, chunk_vars, history_vars>>

\* nuclei_scan.py does not run
NucleiIdle ==
    /\ programs = <<>>
    /\ nuclei_state = NoNucleiState("missing")
    /\ scan_log = <<>>

(***************************************************************************)
(* The run-level specification: a pool of one worker, invocations one      *)
(* after the other on the same disk, a kill possible at every step.        *)
(***************************************************************************)
Init ==
    /\ wordlist \in Wordlists
    /\ args \in [chunk_size : 1..MaxChunkSize, domains_per_hour : 0..MaxCap,
                 permutation_level : 0..3, public_only : {FALSE}, max_workers : {1}]
    /\ environments = <<"", "dev">>
    /\ net = NetMixed
    /\ readable = TRUE
    /\ resume = TRUE
    /\ state_file = MissingFile
    /\ result_files = <<>>
    /\ ProcessIdle
    /\ run = 0
    /\ start_domains = {}
    /\ probes = {}
    /\ reprobes = {}
    /\ probed_chunks = <<>>
    /\ prev_run = [crashed |-> FALSE, probed_chunks |-> <<>>]
    /\ SplitIdle
    /\ NucleiIdle
    /\ StoreIdle

Next ==
    \/ RunLoad
    \/ Proceed
    \/ EscalateOpen
    \/ EscalateDump
    \/ Exhausted
    \/ ChunkBegin
    \/ PoolRunSequential
    \/ PoolJoin
    \/ SaveChunkResults
    \/ MarkAndOpen
    \/ SaveDump
    \/ Finish
    \/ Exit
    \/ Crash

Spec == Init /\ [][Next]_vars

(***************************************************************************)
(* SpecReorder: invocations one after the other on the same disk, as in    *)
(* Spec, with the lines of the wordlist file rearranged between            *)
(* invocations.                                                            *)
(***************************************************************************)
\* the lists with the same entries as a list, in every order
Reorderings(list) ==
    {[i \in DOMAIN list |-> list[p[i]]] : p \in Permutations(DOMAIN list)}

\* the wordlist file is rewritten in another order while no process runs;
\* the next invocation's load_wordlist reads the new order
Reorder ==
    /\ pc = "idle"
    /\ run > 0
    /\ run < MaxRuns
    /\ wordlist' \in Reorderings(wordlist) \ {wordlist}
    /\ UNCHANGED <<nuclei_vars, store_vars, split_vars, args, environments, net, readable, resume, disk_vars,
                   pc,
                   run_vars, chunk_vars, history_vars>>

InitReorder ==
    /\ wordlist \in [1..MaxWords -> ModelWords]
    /\ args \in [chunk_size : {1}, domains_per_hour : 0..1,
                 permutation_level : {0, 3}, public_only : {FALSE}, max_workers : {1}]
    /\ environments = <<"", "dev">>
    /\ net = NetMixed
    /\ readable = TRUE
    /\ resume \in BOOLEAN
    /\ state_file = MissingFile
    /\ result_files = <<>>
    /\ ProcessIdle
    /\ run = 0
    /\ start_domains = {}
    /\ probes = {}
    /\ reprobes = {}
    /\ probed_chunks = <<>>
    /\ prev_run = [crashed |-> FALSE, probed_chunks |-> <<>>]
    /\ SplitIdle
    /\ NucleiIdle
    /\ StoreIdle

NextReorder ==
    \/ Next
    \/ Reorder

SpecReorder == InitReorder /\ [][NextReorder]_vars

(***************************************************************************)
(* The scanner on a state directory that earlier invocations left: some,   *)
(* or all, of the wordlist is complete when the first invocation starts.   *)
(***************************************************************************)
InitEscalate ==
    /\ wordlist \in {<<<<"a">>>>, <<<<"a">>, <<"b">>>>}
    /\ args \in [chunk_size : {1}, domains_per_hour : 0..1,
                 permutation_level : {0, 2, 3}, public_only : {FALSE}, max_workers : {1}]
    /\ environments = <<"", "dev">>
    /\ net = NetMixed
    /\ readable = TRUE
    /\ resume = TRUE
    /\ state_file \in {DomainStateDocument(domains, 0) :
                          domains \in SUBSET {get_domain_hash(w) : w \in {<<"a">>, <<"b">>}}}
    /\ result_files = <<>>
    /\ ProcessIdle
    /\ run = 0
    /\ start_domains = {}
    /\ probes = {}
    /\ reprobes = {}
    /\ probed_chunks = <<>>
    /\ prev_run = [crashed |-> FALSE, probed_chunks |-> <<>>]
    /\ SplitIdle
    /\ NucleiIdle
    /\ StoreIdle

SpecEscalate == InitEscalate /\ [][Next]_vars

(***************************************************************************)
(* SpecFaults: invocations one after the other on a disk whose state file  *)
(* starts in any shape, with wordlist files that may be unreadable and     *)
(* writes of the result and state files that may fail.                     *)
(***************************************************************************)
\* the state file before the first invocation
StateFileShapes ==
    {MissingFile, TruncatedFile, WrongShapeFile, TextShapeFile(<<"a", "b">>),
     DomainStateDocument({get_domain_hash(<<"a">>)}, 0)}

InitFaults ==
    /\ wordlist \in Wordlists
    /\ args = [chunk_size |-> 1, domains_per_hour |-> 0, permutation_level |-> 0,
               public_only |-> FALSE, max_workers |-> 1]
    /\ environments = <<"", "dev">>
    /\ net = NetMixed
    /\ readable \in BOOLEAN
    /\ resume = TRUE
    /\ state_file \in StateFileShapes
    /\ result_files = <<>>
    /\ ProcessIdle
    /\ run = 0
    /\ start_domains = {}
    /\ probes = {}
    /\ reprobes = {}
    /\ probed_chunks = <<>>
    /\ prev_run = [crashed |-> FALSE, probed_chunks |-> <<>>]
    /\ SplitIdle
    /\ NucleiIdle
    /\ StoreIdle

NextFaults ==
    \/ LoadFails
    \/ RunLoad
    \/ Proceed
    \/ EscalateOpen
    \/ EscalateDump
    \/ ChunkBegin
    \/ PoolRunSequential
    \/ PoolJoin
    \/ SaveChunkResults
    \/ SaveChunkResultsFails
    \/ MarkAndOpen
    \/ MarkAndOpenFails
    \/ SaveDump
    \/ SaveDumpFails
    \/ Finish
    \/ Exit

\* the steps of run() between the end of a chunk's pool and the next chunk
\* or the return
AfterPool ==
    \/ SaveChunkResults
    \/ SaveChunkResultsFails
    \/ MarkAndOpen
    \/ MarkAndOpenFails
    \/ SaveDump
    \/ SaveDumpFails
    \/ Finish

\* the process is not killed: once a pool is left it keeps running
SpecFaults == InitFaults /\ [][NextFaults]_vars /\ WF_vars(AfterPool)

(***************************************************************************)
(* The pool-level specification: one invocation on a fresh disk, with the  *)
(* worker threads of run_chunk interleaved step by step.                   *)
(***************************************************************************)
InitPool ==
    /\ wordlist \in Wordlists
    /\ args \in [chunk_size : {MaxChunkSize}, domains_per_hour : {0},
                 permutation_level : {0}, public_only : BOOLEAN,
                 max_workers : {PoolWorkers}]
    /\ environments = <<"", "dev">>
    /\ net = NetMixed
    /\ readable = TRUE
    /\ resume = TRUE
    /\ state_file = MissingFile
    /\ result_files = <<>>
    /\ ProcessIdle
    /\ run = 0
    /\ start_domains = {}
    /\ probes = {}
    /\ reprobes = {}
    /\ probed_chunks = <<>>
    /\ prev_run = [crashed |-> FALSE, probed_chunks |-> <<>>]
    /\ SplitIdle
    /\ NucleiIdle
    /\ StoreIdle

NextPool ==
    \/ (run = 0 /\ RunLoad)
    \/ Proceed
    \/ ChunkBegin
    \/ \E t \in Tasks : TaskStart(t)
    \/ \E t \in Tasks : IncrementLoad(t)
    \/ \E t \in Tasks : IncrementStore(t)
    \/ \E t \in Tasks : Probe(t)
    \/ \E t \in Tasks : MarkAcquire(t)
    \/ \E t \in Tasks : MarkHash(t)
    \/ \E t \in Tasks : AppendAcquire(t)
    \/ \E t \in Tasks : AppendResult(t)
    \/ PoolJoin
    \/ SaveChunkResults
    \/ MarkAndOpen
    \/ SaveDump
    \/ Finish

SpecPool == InitPool /\ [][NextPool]_vars

(***************************************************************************)
(* SpecSplit: one call of split_buckets_by_size on lists and a cap drawn   *)
(* from the bounded sets above; the scanner is not running.                *)
(***************************************************************************)
InitSplit ==
    /\ wordlist = <<<<"a">>>>
    /\ args = [chunk_size |-> 1, domains_per_hour |-> 0, permutation_level |-> 0,
               public_only |-> FALSE, max_workers |-> 1]
    /\ environments = <<"", "dev">>
    /\ net = NetQuiet
    /\ readable = TRUE
    /\ resume = TRUE
    /\ state_file = MissingFile
    /\ result_files = <<>>
    /\ ProcessIdle
    /\ run = 0
    /\ start_domains = {}
    /\ probes = {}
    /\ reprobes = {}
    /\ probed_chunks = <<>>
    /\ prev_run = [crashed |-> FALSE, probed_chunks |-> <<>>]
    /\ script \in {"merge", "validate"}
    /\ public_buckets \in BucketLists(MaxPublic)
    /\ private_buckets \in BucketLists(MaxPrivate)
    /\ max_size \in Caps
    /\ files_data = <<>>
    /\ current_file_data = EmptyFileData
    /\ bucket_count = 0
    /\ split_pc = "public"
    /\ cursor = 0
    /\ StoreIdle
    /\ NucleiIdle

NextSplit ==
    \/ AddPublic
    \/ PublicDone
    \/ AddPrivate
    \/ SplitReturn

SpecSplit == InitSplit /\ [][NextSplit]_vars

(***************************************************************************)
(* SpecGen: one run of the scanner over a one-word wordlist, the words     *)
(* and environment lists drawn from sets that exercise the normalisation   *)
(* and the level-1 loop; nothing exists on the endpoints.                  *)
(***************************************************************************)
GenWords ==
    {<<"a", "c", "m", "e">>, <<"A", "*">>, <<"a", "\t", "b">>, <<"a", " ", "b">>,
     <<"a", ".", "B">>, <<"*">>}

\* load_environments: the lines of a file (possibly none), or the built-in list
GenEnvironments == {<<>>, <<"dev", "prod">>, <<"", "dev">>}

InitGen ==
    /\ wordlist \in {<<w>> : w \in GenWords}
    /\ args \in [chunk_size : {1}, domains_per_hour : {0}, permutation_level : 0..3,
                 public_only : {FALSE}, max_workers : {1}]
    /\ environments \in GenEnvironments
    /\ net = NetQuiet
    /\ readable = TRUE
    /\ resume = TRUE
    /\ state_file = MissingFile
    /\ result_files = <<>>
    /\ ProcessIdle
    /\ run = 0
    /\ start_domains = {}
    /\ probes = {}
    /\ reprobes = {}
    /\ probed_chunks = <<>>
    /\ prev_run = [crashed |-> FALSE, probed_chunks |-> <<>>]
    /\ SplitIdle
    /\ NucleiIdle
    /\ StoreIdle

NextGen ==
    \/ (run = 0 /\ RunLoad)
    \/ Proceed
    \/ ChunkBegin
    \/ PoolRunSequential
    \/ PoolJoin
    \/ SaveChunkResults
    \/ MarkAndOpen
    \/ SaveDump
    \/ Finish

SpecGen == InitGen /\ [][NextGen]_vars

(***************************************************************************)
(* SpecProbe: one run of the scanner over the word "a", the worker threads *)
(* interleaved, with the answers of the endpoint to the HEAD and the GET   *)
(* of both URL shapes of ("a", first region) drawn independently; the      *)
(* other targets answer as NetMixed says.                                  *)
(***************************************************************************)
\* what requests.head can do: a final status, or raise
HeadAnswers ==
    {Status(200), Status(301), Status(302), Status(307), Status(403), Status(404),
     Timeout, ConnectionError}

\* the answers drawn for the HEAD of the path-style URL
PathHeadAnswers == {Status(200), Status(307), Status(404), Timeout, ConnectionError}

\* what requests.get can do: the same, a server error, or a 200 whose body
\* has a listing marker
GetAnswers == HeadAnswers \cup {Status(500), Listing}

ProbeNets ==
    {[head |-> (VirtualHostedUrl("a", Regions[1]) :> hv)
               @@ (PathStyleUrl("a", Regions[1]) :> hp) @@ NetMixed.head,
      get  |-> (VirtualHostedUrl("a", Regions[1]) :> gv)
               @@ (PathStyleUrl("a", Regions[1]) :> gp) @@ NetMixed.get] :
       hv \in HeadAnswers, hp \in PathHeadAnswers, gv \in GetAnswers, gp \in GetAnswers}

InitProbe ==
    /\ wordlist = <<<<"a">>>>
    /\ args = [chunk_size |-> 1, domains_per_hour |-> 0, permutation_level |-> 0,
               public_only |-> FALSE, max_workers |-> PoolWorkers]
    /\ environments = <<"", "dev">>
    /\ net \in ProbeNets
    /\ readable = TRUE
    /\ resume = TRUE
    /\ state_file = MissingFile
    /\ result_files = <<>>
    /\ ProcessIdle
    /\ run = 0
    /\ start_domains = {}
    /\ probes = {}
    /\ reprobes = {}
    /\ probed_chunks = <<>>
    /\ prev_run = [crashed |-> FALSE, probed_chunks |-> <<>>]
    /\ SplitIdle
    /\ NucleiIdle
    /\ StoreIdle

NextProbe ==
    \/ (run = 0 /\ RunLoad)
    \/ Proceed
    \/ ChunkBegin
    \/ \E t \in Tasks : TaskStart(t)
    \/ \E t \in Tasks : IncrementLoad(t)
    \/ \E t \in Tasks : IncrementStore(t)
    \/ \E t \in Tasks : Probe(t)
    \/ \E t \in Tasks : MarkAcquire(t)
    \/ \E t \in Tasks : MarkHash(t)
    \/ \E t \in Tasks : AppendAcquire(t)
    \/ \E t \in Tasks : AppendResult(t)
    \/ PoolJoin
    \/ SaveChunkResults
    \/ MarkAndOpen
    \/ SaveDump
    \/ Finish

\* the process is not killed and its threads are scheduled: it keeps running
SpecProbe == InitProbe /\ [][NextProbe]_vars /\ WF_vars(NextProbe)

(***************************************************************************)
(* SpecClassify: one run of the scanner over the word "a" with a pool of   *)
(* one worker, with and without --public, the answers of the endpoint for  *)
(* ("a", first region) drawn as in SpecProbe.                              *)
(***************************************************************************)
InitClassify ==
    /\ wordlist = <<<<"a">>>>
    /\ args \in [chunk_size : {1}, domains_per_hour : {0}, permutation_level : {0},
                 public_only : BOOLEAN, max_workers : {1}]
    /\ environments = <<"", "dev">>
    /\ net \in ProbeNets
    /\ readable = TRUE
    /\ resume = TRUE
    /\ state_file = MissingFile
    /\ result_files = <<>>
    /\ ProcessIdle
    /\ run = 0
    /\ start_domains = {}
    /\ probes = {}
    /\ reprobes = {}
    /\ probed_chunks = <<>>
    /\ prev_run = [crashed |-> FALSE, probed_chunks |-> <<>>]
    /\ SplitIdle
    /\ NucleiIdle
    /\ StoreIdle

NextClassify ==
    \/ (run = 0 /\ RunLoad)
    \/ Proceed
    \/ ChunkBegin
    \/ PoolRunSequential
    \/ PoolJoin
    \/ SaveChunkResults
    \/ MarkAndOpen
    \/ SaveDump
    \/ Finish

SpecClassify == InitClassify /\ [][NextClassify]_vars

(***************************************************************************)
(* SpecStore: one run of merge_results.py or of validate_buckets.py on a   *)
(* results directory drawn from the sets above; the endpoints answer as    *)
(* NetMixed says.                                                          *)
(***************************************************************************)
InitStore ==
    /\ wordlist = <<<<"a">>>>
    /\ args = [chunk_size |-> 1, domains_per_hour |-> 0, permutation_level |-> 0,
               public_only |-> FALSE, max_workers |-> 1]
    /\ environments = <<"", "dev">>
    /\ net = NetMixed
    /\ readable = TRUE
    /\ resume = TRUE
    /\ state_file = MissingFile
    /\ result_files = <<>>
    /\ ProcessIdle
    /\ run = 0
    /\ start_domains = {}
    /\ probes = {}
    /\ reprobes = {}
    /\ probed_chunks = <<>>
    /\ prev_run = [crashed |-> FALSE, probed_chunks |-> <<>>]
    /\ SplitIdle
    /\ NucleiIdle
    /\ aggregate_files \in AggregateStates
    /\ stage \in {"merge", "validate"}
    /\ batch_files \in IF stage = "merge" THEN BatchStates ELSE {<<>>}
    /\ stage_pc = "start"
    /\ old_bucket_files = {}
    /\ new_files = <<>>
    /\ written = 0
    /\ stats = [public |-> NoStats, private |-> NoStats]
    /\ clock = 3
    /\ stored_at_start = {}
    /\ NucleiIdle

NextStore ==
    \/ MergeStart
    \/ ValidateStart
    \/ ValidateDeleteOld
    \/ WriteOpen
    \/ WriteDump
    \/ MergeDeleteOld
    \/ MergeDeleteSources
    \/ ValidateFinish
    \/ StageKilled

SpecStore == InitStore /\ [][NextStore]_vars

(***************************************************************************)
(* merge_results.py on a directory with two chunk files: the records of    *)
(* the first carry time 2, those of the second time 3, those of the        *)
(* aggregate time 1.                                                       *)
(***************************************************************************)
ChunkFilesAt(t) ==
    {CorruptFile} \cup {JsonFile(p, v) : p \in RecordLists(MaxBatchList, "public", t),
                                         v \in RecordLists(MaxBatchList, "private", t)}

InitDedup ==
    /\ wordlist = <<<<"a">>>>
    /\ args = [chunk_size |-> 1, domains_per_hour |-> 0, permutation_level |-> 0,
               public_only |-> FALSE, max_workers |-> 1]
    /\ environments = <<"", "dev">>
    /\ net = NetMixed
    /\ readable = TRUE
    /\ resume = TRUE
    /\ state_file = MissingFile
    /\ result_files = <<>>
    /\ ProcessIdle
    /\ run = 0
    /\ start_domains = {}
    /\ probes = {}
    /\ reprobes = {}
    /\ probed_chunks = <<>>
    /\ prev_run = [crashed |-> FALSE, probed_chunks |-> <<>>]
    /\ SplitIdle
    /\ NucleiIdle
    /\ aggregate_files \in {<<>>} \cup {(0 :> f) : f \in ChunkFilesAt(1)}
    /\ stage = "merge"
    /\ batch_files \in {<<first, second>> : first \in ChunkFilesAt(2), second \in ChunkFilesAt(3)}
    /\ stage_pc = "start"
    /\ old_bucket_files = {}
    /\ new_files = <<>>
    /\ written = 0
    /\ stats = [public |-> NoStats, private |-> NoStats]
    /\ clock = 4
    /\ stored_at_start = {}
    /\ NucleiIdle

NextDedup ==
    \/ MergeStart
    \/ WriteOpen
    \/ WriteDump
    \/ MergeDeleteOld
    \/ MergeDeleteSources
    \/ StageKilled

SpecDedup == InitDedup /\ [][NextDedup]_vars

(***************************************************************************)
(* nuclei_scan.py, invoked again and again on one program list and one     *)
(* state directory.                                                        *)
(***************************************************************************)
InitNuclei ==
    /\ wordlist = <<<<"a">>>>
    /\ args = [chunk_size |-> 1, domains_per_hour |-> 0, permutation_level |-> 0,
               public_only |-> FALSE, max_workers |-> 1]
    /\ environments = <<"", "dev">>
    /\ net = NetMixed
    /\ readable = TRUE
    /\ resume = TRUE
    /\ state_file = MissingFile
    /\ result_files = <<>>
    /\ ProcessIdle
    /\ run = 0
    /\ start_domains = {}
    /\ probes = {}
    /\ reprobes = {}
    /\ probed_chunks = <<>>
    /\ prev_run = [crashed |-> FALSE, probed_chunks |-> <<>>]
    /\ SplitIdle
    /\ StoreIdle
    /\ programs \in UNION {[1..n -> ModelPrograms] : n \in 0..MaxPrograms}
    /\ nuclei_state \in {NoNucleiState("missing"), NoNucleiState("corrupt")}
    /\ scan_log = <<>>

NextNuclei ==
    \/ NucleiScan
    \/ NucleiScanFails
    \/ NucleiNothingToScan

SpecNuclei == InitNuclei /\ [][NextNuclei]_vars

(***************************************************************************)
(* Properties of the state tracker (checked under Spec).                   *)
(***************************************************************************)
WordSet == Range(wordlist)

HashesOf(words) == {get_domain_hash(w) : w \in words}

\* the wordlist entries whose hash the loaded completed set lacks
PendingAtStart == {w \in WordSet : get_domain_hash(w) \notin start_domains}

\* the run loaded a completed set holding some, not all, of the wordlist
PartialStart ==
    /\ pc # "idle"
    /\ HashesOf(WordSet) \cap start_domains # {}
    /\ ~(HashesOf(WordSet) \subseteq start_domains)

\* the run loaded a completed set holding the whole wordlist
CompleteStart == pc # "idle" /\ HashesOf(WordSet) \subseteq start_domains

\* the candidate names of a set of words at the run's current level
NamesOfWords(words) ==
    UNION {NamesOfWord(NormalizeWord(w), permutation_level, environments) :
             w \in {v \in words : NormalizeWord(v) # ""}}

RECURSIVE WordsOf(_)
WordsOf(chunk_records) ==
    IF chunk_records = <<>> THEN <<>>
    ELSE Head(chunk_records).words \o WordsOf(Tail(chunk_records))

\* C1: a run that starts from a completed set holding some but not all of
\* the wordlist plans chunks, generates names, probes and marks only for
\* entries whose hash is absent from that set.
ResumeProcessesOnlyPending ==
    PartialStart =>
        /\ \A k \in DOMAIN chunks : Range(chunks[k]) \subseteq PendingAtStart
        /\ Range(bucket_names) \subseteq NamesOfWords(PendingAtStart)
        /\ \A target \in probes : target[1] \in NamesOfWords(PendingAtStart)
        /\ Range(domains_scanned_this_run) \subseteq PendingAtStart

ResumeWitness ==
    /\ pc = "done"
    /\ PartialStart
    /\ probes # {}
    /\ Range(domains_scanned_this_run) = PendingAtStart

\* the words the per-invocation cap lets one run process out of the wordlist
WordlistUpToCap ==
    IF args.domains_per_hour = 0 THEN wordlist
    ELSE SubSeq(wordlist, 1, Min(args.domains_per_hour, Len(wordlist)))

\* C2 as stated: a run that starts with every entry complete at a level below
\* 3 ends having raised the level by one, treated every entry as pending and
\* generated names at the new level for all of them.
EscalationRescansAll ==
    (pc = "done" /\ CompleteStart /\ args.permutation_level < 3) =>
        /\ permutation_level = args.permutation_level + 1
        /\ remaining_domains = wordlist
        /\ WordsOf(probed_chunks) = wordlist
        /\ \A k \in DOMAIN probed_chunks :
              probed_chunks[k].level = args.permutation_level + 1

\* C2 as amended: ... and generated names at the new level for the entries
\* the per-invocation cap admits (all of them when no cap is given).
EscalationRescansUpToCap ==
    (pc = "done" /\ CompleteStart /\ args.permutation_level < 3) =>
        /\ permutation_level = args.permutation_level + 1
        /\ remaining_domains = wordlist
        /\ WordsOf(probed_chunks) = WordlistUpToCap
        /\ \A k \in DOMAIN probed_chunks :
              probed_chunks[k].level = args.permutation_level + 1

EscalationWitness ==
    /\ pc = "done"
    /\ CompleteStart
    /\ args.permutation_level = 1
    /\ permutation_level = 2
    /\ Len(wordlist) >= 2
    /\ WordsOf(probed_chunks) = wordlist

\* C3: with a cap N a finished run has processed at most N domains, has
\* marked only those complete, and every pending domain beyond the cap (that
\* the run did not process) is absent from the persisted completed set.
CapLeavesRestPending ==
    (pc = "done" /\ args.domains_per_hour > 0 /\ state_file.kind = "json") =>
        /\ Len(domains_scanned_this_run) <= args.domains_per_hour
        /\ state_file.scanned_domains
             = start_domains \cup HashesOf(Range(domains_scanned_this_run))
        /\ \A i \in DOMAIN remaining_domains :
              (i > args.domains_per_hour
                 /\ remaining_domains[i] \notin Range(domains_scanned_this_run))
              => get_domain_hash(remaining_domains[i]) \notin state_file.scanned_domains

\* words of chunks the killed run had fully probed that the restarted run
\* treats as pending
LostWords ==
    {w \in Range(WordsOf(prev_run.probed_chunks)) : w \in Range(remaining_domains)}

\* C4: after a kill, the words fully probed by the killed run that the
\* restarted run treats as pending lie in a single chunk, and the words of
\* every chunk before the last probed one are recorded as complete.
CrashLosesAtMostOneChunk ==
    (prev_run.crashed /\ pc = "chunk" /\ idx = 0) =>
        /\ \/ LostWords = {}
           \/ \E k \in DOMAIN prev_run.probed_chunks :
                 LostWords \subseteq Range(prev_run.probed_chunks[k].words)
        /\ \A k \in DOMAIN prev_run.probed_chunks :
              k < Len(prev_run.probed_chunks)
              => HashesOf(Range(prev_run.probed_chunks[k].words)) \subseteq start_domains

\* C6: within one run over the chunks of the wordlist no (name, region) pair
\* is passed to the probe client more than once.
NoTargetProbedTwiceInPass == reprobes = {}

(***************************************************************************)
(* Properties of the scheduler (checked under SpecPool).                   *)
(***************************************************************************)
\* calls submitted and not yet returned
InFlight == {t \in DOMAIN task_pc : task_pc[t] \notin {"done", "skipped"}}

\* C5: within one run_chunk, under every interleaving, no two calls pass the
\* same (name, region) pair to check_bucket.
EachTargetProbedOnce ==
    \A t, u \in Probed : t # u => combinations[t] # combinations[u]

EachTargetProbedOnceWitness ==
    /\ pc = "save_results"
    /\ Cardinality(Probed) >= 2 * NumRegions
    /\ Cardinality({combinations[t] : t \in Probed}) = Len(bucket_names) * NumRegions

\* C7: during a chunk total_checked never decreases, and when the pool has
\* been left it equals the number of probes made, names x regions.
CounterAccurate ==
    /\ [](pc = "save_results" =>
            /\ total_checked = Cardinality(Probed)
            /\ total_checked = Len(bucket_names) * NumRegions)
    /\ [][(pc = "pool" /\ pc' = "pool") => total_checked' >= total_checked]_vars

\* two workers contend for the increment
CounterWitness ==
    /\ total_checked >= 1
    /\ \E t, u \in DOMAIN task_pc : task_pc[t] = "inc" /\ task_pc[u] = "inc_wait"

\* a result some list must take
PassesFilter(result) ==
    result.found /\ (result.access \in {"public", "accessible"} \/ ~args.public_only)

Occurrences(list, x) == Cardinality({i \in DOMAIN list : list[i] = x})

IsPrefix(s, t) == Len(s) <= Len(t) /\ SubSeq(t, 1, Len(s)) = s

\* C8: when the pool has been left the result lists hold exactly one record
\* per probe whose result passes the filter, and during the chunk a list only
\* ever grows at its end.
ResultsExactlyOnce ==
    /\ [](pc = "save_results" =>
            /\ \A t \in Probed :
                  Occurrences(results.public \o results.private, task_result[t])
                    = (IF PassesFilter(task_result[t]) THEN 1 ELSE 0)
            /\ Len(results.public) + Len(results.private)
                 = Cardinality({t \in Probed : PassesFilter(task_result[t])}))
    /\ [][(pc = "pool" /\ pc' = "pool") =>
            /\ IsPrefix(results.public, results'.public)
            /\ IsPrefix(results.private, results'.private)]_vars

ResultsWitness ==
    /\ pc = "save_results"
    /\ Len(results.public) >= 1
    /\ Len(results.private) >= 2

\* C9: the pool is left, the chunk's result file written and the chunk's
\* words marked only when no submitted call is unfinished.
NothingBeforeProbesFinish ==
    /\ pc \in {"save_results", "mark", "save_state"} => InFlight = {}
    /\ InFlight # {} =>
          /\ ChunkFileName \notin DOMAIN result_files
          /\ Len(domains_scanned_this_run) = idx * args.chunk_size
          /\ state_file.kind = "json" =>
                HashesOf(Range(CurrentChunk)) \cap state_file.scanned_domains = {}

NothingBeforeProbesFinishWitness ==
    /\ pc = "save_state"
    /\ Cardinality(Probed) >= 2 * NumRegions
    /\ ChunkFileName \in DOMAIN result_files

(***************************************************************************)
(* Properties of split_buckets_by_size (checked under SpecSplit).          *)
(***************************************************************************)
\* C10: every file split_buckets_by_size has emitted, in merge and in
\* validate, has serialized size at most 1.1 x max_size.
EmittedFilesWithinTolerance ==
    \A k \in DOMAIN files_data :
        estimate_json_size(files_data[k]) * 10 <= max_size * 11

RECURSIVE ListOf(_, _)
\* the public (or private) lists of the files, one after the other
ListOf(files, kind) ==
    IF files = <<>> THEN <<>>
    ELSE ListOf(SubSeq(files, 1, Len(files) - 1), kind) \o files[Len(files)][kind]

\* records of each input list the loops have taken so far
TakenPublic == IF split_pc = "public" THEN cursor ELSE Len(public_buckets)

TakenPrivate == IF split_pc = "public" THEN 0
                ELSE IF split_pc = "private" THEN cursor ELSE Len(private_buckets)

\* C11: the public lists of the emitted files, one after the other, are the
\* public input list, and likewise for private (every record in exactly one
\* file, in input order); no emitted file is empty.  While the split runs the
\* emitted files and the current one hold exactly the records taken so far.
SplitKeepsEveryRecord ==
    /\ \A k \in DOMAIN files_data : HasData(files_data[k])
    /\ split_pc = "returned" =>
          /\ ListOf(files_data, "public") = public_buckets
          /\ ListOf(files_data, "private") = private_buckets
    /\ split_pc \in {"public", "private"} =>
          /\ ListOf(files_data, "public") \o current_file_data.public
               = SubSeq(public_buckets, 1, TakenPublic)
          /\ ListOf(files_data, "private") \o current_file_data.private
               = SubSeq(private_buckets, 1, TakenPrivate)

SplitKeepsEveryRecordWitness ==
    /\ split_pc = "returned"
    /\ Len(files_data) >= 3
    /\ \E k \in DOMAIN files_data :
          files_data[k].public # <<>> /\ files_data[k].private # <<>>
    /\ public_buckets[1] # public_buckets[2]
    /\ Len(private_buckets) >= 2

(***************************************************************************)
(* Properties of the aggregate store (checked under SpecStore).            *)
(***************************************************************************)
UrlsOf(records) == {r.url : r \in records}

\* C12: when merge or validate dies before it has finished, every record
\* that was stored when it started is still stored (no old bucket file has
\* been deleted or emptied before every new one is written).
OldRecordsSurviveFailure ==
    stage_pc = "killed" => UrlsOf(stored_at_start) \subseteq UrlsOf(RecordsOnDisk)

\* every record of the bucket files of the given indices, list after list
AllStored ==
    ExtendFrom(aggregate_files, DOMAIN aggregate_files, "public")
      \o ExtendFrom(aggregate_files, DOMAIN aggregate_files, "private")

\* the records of the readable chunk files
BatchRecords ==
    UNION {Range(batch_files[i].public) \cup Range(batch_files[i].private) :
             i \in {j \in DOMAIN batch_files : batch_files[j].kind = "json"}}

\* C13: when merge has rewritten the aggregate, no two of its records share
\* a URL, and every URL of a readable old bucket file or readable chunk file
\* is in it.
MergedUrlsUnique ==
    (stage = "merge" /\ stage_pc = "delete_sources") =>
        /\ \A i, j \in DOMAIN AllStored : i # j => AllStored[i].url # AllStored[j].url
        /\ UrlsOf(stored_at_start) \cup UrlsOf(BatchRecords) \subseteq UrlsOf(RecordsOnDisk)

\* the endpoint answers a HEAD of the URL with status 200
AnswersSuccess(url) ==
    /\ url \in DOMAIN net.head
    /\ net.head[url].kind = "response"
    /\ net.head[url].status = 200

\* the records of one list that were stored at the start / are stored now
StartList(kind) == {r \in stored_at_start : r.access = kind}

DiskList(kind) == ExtendFrom(aggregate_files, DOMAIN aggregate_files, kind)

\* C14: after a validation run each list of the aggregate holds exactly the
\* records stored before whose URL answered 200, once each, with the time and
\* the status of the re-probe, and none of the others; for each list
\* alive + dead + errors = total.
ValidationKeepsExactlyAlive ==
    (stage = "validate" /\ stage_pc = "done") =>
        \A kind \in {"public", "private"} :
            /\ Range(DiskList(kind))
                 = {[r EXCEPT !.timestamp = clock - 1, !.status = 200] :
                      r \in {q \in StartList(kind) : AnswersSuccess(q.url)}}
            /\ Len(DiskList(kind))
                 = Cardinality({q \in StartList(kind) : AnswersSuccess(q.url)})
            /\ \A r \in Range(DiskList(kind)) :
                  \A q \in StartList(kind) : q.url = r.url => r.timestamp > q.timestamp
            /\ stats[kind].alive + stats[kind].dead + stats[kind].errors = stats[kind].total
            /\ stats[kind].total = Cardinality(StartList(kind))
            /\ stats[kind].alive = Len(DiskList(kind))

ValidationWitness ==
    /\ stage = "validate"
    /\ stage_pc = "done"
    /\ stats.public.alive = 1
    /\ stats.public.dead = 1
    /\ stats.private.alive = 2
    /\ Len(DiskList("private")) = 2

(***************************************************************************)
(* Properties of the name generator (checked under SpecGen).               *)
(***************************************************************************)
\* what the generator returns for the one word w at a level
Generated(w, level) == generate_bucket_names(<<w>>, level, environments)

\* C15 as stated: for every word and all levels L1 < L2 the names of level L1
\* are among those of level L2, and level L2 has a name level L1 lacks
\* whenever the word is non-empty after normalization.
LevelsStrictlyExtend ==
    \A i \in DOMAIN wordlist : \A l1, l2 \in 0..3 :
        l1 < l2 =>
            /\ Generated(wordlist[i], l1) \subseteq Generated(wordlist[i], l2)
            /\ NormalizeWord(wordlist[i]) # ""
                 => Generated(wordlist[i], l1) # Generated(wordlist[i], l2)

\* C15 as amended: ... and level L2 has a name level L1 lacks whenever the
\* word is non-empty after normalization and, for L1 = 0 and L2 = 1, the
\* environment list has a non-empty entry.
LevelsExtend ==
    \A i \in DOMAIN wordlist : \A l1, l2 \in 0..3 :
        l1 < l2 =>
            /\ Generated(wordlist[i], l1) \subseteq Generated(wordlist[i], l2)
            /\ (/\ NormalizeWord(wordlist[i]) # ""
                /\ (l2 >= 2 \/ \E k \in DOMAIN environments : environments[k] # ""))
                 => Generated(wordlist[i], l1) # Generated(wordlist[i], l2)

LevelsExtendWitness ==
    /\ pc = "pool"
    /\ permutation_level = 3
    /\ Range(bucket_names) = Generated(wordlist[1], 3)
    /\ Generated(wordlist[1], 0) # Generated(wordlist[1], 1)
    /\ Generated(wordlist[1], 1) # Generated(wordlist[1], 2)
    /\ Generated(wordlist[1], 2) # Generated(wordlist[1], 3)

\* the characters of a word after normalization
Normalized(chars) ==
    SelectSeq([k \in DOMAIN chars |-> NormalizeChar(chars[k])], LAMBDA c : c # "")

ForbiddenChars == {" ", "\t", "\n", "\r", "*"} \cup DOMAIN UpperToLower

\* C16: no generated name contains a whitespace character, a '*' or an
\* upper-case letter (stated for the base name of each word, whose characters
\* the model knows).
GeneratedNamesClean ==
    \A i \in DOMAIN wordlist :
        Str(Normalized(wordlist[i])) \in Range(bucket_names)
          => \A c \in Range(Normalized(wordlist[i])) : c \notin ForbiddenChars

\* C17: for wordlist ["acme"], environments ["dev", "prod"] and level 1 the
\* generated names are exactly the nine listed.
AcmeLevelOneNames ==
    (/\ pc = "pool"
     /\ wordlist = <<<<"a", "c", "m", "e">>>>
     /\ environments = <<"dev", "prod">>
     /\ permutation_level = 1)
    => Range(bucket_names)
         = {"acme", "acme-dev", "dev-acme", "acme-prod", "prod-acme",
            "acmedev", "devacme", "acmeprod", "prodacme"}

\* C18: at level 2 and above, for every word non-empty after normalization,
\* every tag among the years, the 2-digit years, the numbers and the short
\* region codes, and every separator of SEPARATORS, word + separator + tag is
\* generated.
TagsWithEverySeparator ==
    (pc = "pool" /\ permutation_level >= 2) =>
        \A i \in {j \in DOMAIN wordlist : NormalizeWord(wordlist[j]) # ""} :
            \A tag \in Tags(YEARS) \cup Tags(SHORT_YEARS) \cup Tags(NUMBERS)
                         \cup Tags(REGIONS_SHORT) :
                \A sep \in Range(SEPARATORS) :
                    NormalizeWord(wordlist[i]) \o sep \o tag \in Range(bucket_names)

(***************************************************************************)
(* C19, C20: the probe of one target.                                      *)
(***************************************************************************)
\* the answer of the endpoint to the GET of the URL a result reports
GetOf(result) == IF result.url \in DOMAIN net.get THEN net.get[result.url] ELSE Status(404)

\* C19: the access of every record a probe returns is determined by the
\* answer to the GET of the record's URL alone: 200 with a marker is public,
\* 200 without is accessible, 403 is private, 301, 302 and 307 are exists,
\* any other status is unknown, a GET that raises is private; the access is
\* always one of the five values.
AccessFollowsGet ==
    \A t \in Probed :
        task_result[t].found =>
            LET g == GetOf(task_result[t])
                access == task_result[t].access
            IN /\ access \in {"public", "accessible", "private", "exists", "unknown"}
               /\ (g.kind = "response" /\ g.status = 200 /\ g.marker) => access = "public"
               /\ (g.kind = "response" /\ g.status = 200 /\ ~g.marker)
                     => access = "accessible"
               /\ (g.kind = "response" /\ g.status = 403) => access = "private"
               /\ (g.kind = "response" /\ g.status \in {301, 302, 307}) => access = "exists"
               /\ (g.kind = "response" /\ g.status \notin {200, 403, 301, 302, 307})
                     => access = "unknown"
               /\ g.kind \in {"timeout", "error"} => access = "private"

\* a record whose HEAD was redirected and whose GET raised, next to one whose
\* GET was answered 403
AccessFollowsGetWitness ==
    /\ pc = "save_results"
    /\ \E t, u \in Probed :
          /\ task_result[t].found /\ task_result[t].status = 307
          /\ GetOf(task_result[t]).kind = "timeout" /\ task_result[t].access = "private"
          /\ task_result[u].found /\ task_result[u].status = 200
          /\ GetOf(task_result[u]).status = 403 /\ task_result[u].access = "private"

\* the answer to the HEAD of a URL is a status among 200, 301, 302, 307
HeadQualifies(url) ==
    /\ url \in DOMAIN net.head
    /\ net.head[url].kind = "response"
    /\ net.head[url].status \in {200, 301, 302, 307}

\* C20: a probe whose virtual-hosted HEAD times out, fails to connect or is
\* answered a status outside 200, 301, 302, 307 goes on to the path-style
\* URL; it returns the record of the first shape whose HEAD qualifies and
\* nothing when neither does; the pool is left only when every target of the
\* chunk has been probed, and the run goes on to write the chunk's result
\* file and to finish.
ProbeFallsThrough ==
    /\ [](\A t \in Probed :
            LET v == VirtualHostedUrl(combinations[t][1], combinations[t][2])
                p == PathStyleUrl(combinations[t][1], combinations[t][2])
            IN /\ HeadQualifies(v) => task_result[t].found /\ task_result[t].url = v
               /\ (~HeadQualifies(v) /\ HeadQualifies(p))
                     => task_result[t].found /\ task_result[t].url = p
               /\ (~HeadQualifies(v) /\ ~HeadQualifies(p)) => ~task_result[t].found)
    /\ [](pc = "save_results" => {combinations[t] : t \in Probed} = Range(combinations))
    /\ <>(/\ pc = "done"
          /\ \E f \in DOMAIN result_files :
                result_files[f].stats.total_checked = Len(combinations))

\* the run has finished with the chunk's file written, the virtual-hosted
\* HEAD of a target failed to connect and its record has the path-style URL,
\* and another target of the chunk has its record too
ProbeFallsThroughWitness ==
    /\ pc = "done"
    /\ DOMAIN result_files # {}
    /\ \E t \in Probed :
          /\ VirtualHostedUrl(combinations[t][1], combinations[t][2]) \in DOMAIN net.head
          /\ net.head[VirtualHostedUrl(combinations[t][1], combinations[t][2])].kind = "error"
          /\ task_result[t].found
          /\ task_result[t].url = PathStyleUrl(combinations[t][1], combinations[t][2])
          /\ \E u \in Probed \ {t} : task_result[u].found

(***************************************************************************)
(* C22, C27, C28: the pool of run_chunk under every interleaving.          *)
(***************************************************************************)
\* the multiset of the entries of a list
BagOfSeq(list) ==
    [x \in Range(list) |-> Cardinality({i \in DOMAIN list : list[i] = x})]

\* the lists one fixed execution of the chunk ends with: the calls run one
\* after the other in submission order
InOrderLists ==
    ScanInOrder([total_checked |-> 0, scanned_hashes |-> {}, public |-> <<>>,
                 private |-> <<>>, probed |-> <<>>], combinations, 1, Len(combinations))

\* C22: for the chunk's candidate list and the fixed answers of the
\* endpoints, every interleaving of the workers leaves the pool with the same
\* multiset of records in the public list and in the private list (the one
\* the in-order execution ends with).
InterleavingsAgree ==
    pc = "save_results" =>
        /\ BagOfSeq(results.public) = BagOfSeq(InOrderLists.public)
        /\ BagOfSeq(results.private) = BagOfSeq(InOrderLists.private)

\* an interleaving that ends with the private list in another order than the
\* in-order execution
InterleavingsAgreeWitness ==
    /\ pc = "save_results"
    /\ Len(results.private) >= 2
    /\ results.private # InOrderLists.private

\* C27: a worker whose next step is its call of check_bucket (the HEAD and
\* the GET of a probe) does not own the lock.
NoLockAcrossProbe ==
    \A t \in Tasks : task_pc[t] = "probe" => lock # t

\* a probe is pending while another worker owns the lock
NoLockAcrossProbeWitness ==
    \E t, u \in Tasks : t # u /\ task_pc[t] = "probe" /\ lock = u

\* C28: every step of a worker that reads or writes the result lists, the
\* counter or the deduplication set is taken by a worker that owns the lock
\* (the lookup of the hash, the read and the write of the counter, the
\* recording of the hash, the append), stated for the steps taken while
\* another worker is inside scan_bucket.
LockHeldOnEveryAccess ==
    [][\A t \in DOMAIN task_pc :
          (/\ t \in DOMAIN task_pc'
           /\ task_pc[t] \in {"queued", "inc_wait", "inc", "mark", "append"}
           /\ task_pc'[t] # task_pc[t]
           /\ \E u \in DOMAIN task_pc \ {t} : task_pc[u] \notin {"queued", "done", "skipped"})
            => (lock = t \/ lock' = t)]_vars

(***************************************************************************)
(* C26, C29: what the state file holds over a sequence of invocations.     *)
(***************************************************************************)
\* C26: when a run that went through the escalation branch has finished, the
\* state file carries permutation_level_completed, the level the run was
\* started with, and additional_rounds, a count of at least one round.
EscalationRecorded ==
    (/\ pc = "done"
     /\ CompleteStart
     /\ permutation_level # args.permutation_level
     /\ state_file.kind = "json")
    => /\ state_file.permutation_level_completed = args.permutation_level
       /\ state_file.additional_rounds >= 1

ReorderKeepsProgress ==
    pc # "idle" =>
        /\ \A order \in Reorderings(wordlist) :
              Range(RemainingDomains(order, start_domains))
                = Range(RemainingDomains(wordlist, start_domains))
        /\ (~prev_run.crashed /\ ~CompleteStart)
              => Range(WordsOf(prev_run.probed_chunks))
                   \cap Range(domains_scanned_this_run) = {}

\* a run has finished that found the completed word at the end of the list
\* and the pending word at its head, and processed the pending word only
ReorderKeepsProgressWitness ==
    /\ pc = "done"
    /\ PartialStart
    /\ ~prev_run.crashed
    /\ Range(WordsOf(prev_run.probed_chunks)) = {wordlist[Len(wordlist)]}
    /\ get_domain_hash(wordlist[1]) \notin start_domains
    /\ domains_scanned_this_run = <<wordlist[1]>>

(***************************************************************************)
(* C21, C23, C24: unreadable inputs and failing writes.                    *)
(***************************************************************************)
\* C21: a load leaves the state file as it is and lets the run go on, and a
\* load of a file that is missing, unparsable or parsable but not of the
\* shape save_domain_state writes yields the empty completed set.
LoadToleratesBadFile ==
    [][(pc = "idle" /\ pc' # "idle" /\ readable)
         => /\ pc' = "loaded"
            /\ state_file' = state_file
            /\ state_file.kind # "json" => scanned_domains' = {}]_vars

\* C23: with a wordlist file that cannot be read the run ends with exit
\* status 1; no probe is made, no result file is written and the state file
\* is not touched.
UnreadableWordlistAborts ==
    /\ [](~readable => /\ pc \in {"idle", "exit_1"}
                       /\ probes = {}
                       /\ probed_chunks = <<>>
                       /\ result_files = <<>>)
    /\ [][~readable => state_file' = state_file]_vars
    /\ [][(~readable /\ pc = "idle" /\ pc' # "idle") => pc' = "exit_1"]_vars

\* the run has exited with status 1 next to an intact state file
UnreadableWordlistAbortsWitness ==
    /\ pc = "exit_1"
    /\ ~readable
    /\ run = 1
    /\ state_file.kind = "json"
    /\ state_file.scanned_domains # {}

\* the words of a list of chunks
RECURSIVE Flatten(_)
Flatten(lists) == IF lists = <<>> THEN <<>> ELSE Head(lists) \o Flatten(Tail(lists))

\* C24: whether or not the writes of the result files and of the state file
\* fail, the run does not exit early: after the write of a chunk's result
\* file the state write comes next, after the state write the next chunk or
\* the end of the loop; a run that has left a chunk's pool goes on to the
\* next chunk or to its return, and a finished run has probed every chunk it
\* planned.
WriteFailuresNotFatal ==
    /\ [](readable => pc # "exit_1")
    /\ [](pc = "done" => WordsOf(probed_chunks) = Flatten(chunks))
    /\ [][/\ pc = "save_results" => pc' = "mark"
          /\ (pc \in {"mark", "save_state"} /\ idx' # idx)
               => pc' = (IF idx' < Len(chunks) THEN "chunk" ELSE "finish")]_vars
    /\ ((pc = "save_results") ~> (pc \in {"chunk", "done"}))

\* a first run has finished: the result file of its first chunk was not
\* written, the one of its second chunk was, and the last state write failed
WriteFailuresNotFatalWitness ==
    /\ pc = "done"
    /\ run = 1
    /\ Len(chunks) = 2
    /\ <<Str(chunks[1][1]), 1>> \notin DOMAIN result_files
    /\ <<Str(chunks[2][1]), 2>> \in DOMAIN result_files
    /\ result_files[<<Str(chunks[2][1]), 2>>].chunk_id = 2
    /\ state_file.kind = "corrupt"
    /\ Len(probed_chunks) = 2

(***************************************************************************)
(* C30: the two lists of a chunk file.                                     *)
(***************************************************************************)
\* the URL shape whose HEAD qualifies first, for a target that has one
QualifyingUrl(target) ==
    IF HeadQualifies(VirtualHostedUrl(target[1], target[2]))
    THEN VirtualHostedUrl(target[1], target[2])
    ELSE PathStyleUrl(target[1], target[2])

TargetFound(target) == HeadQualifies(QualifyingUrl(target))

\* the GET of the qualifying URL is answered 200: public or accessible
TargetOpen(target) ==
    /\ QualifyingUrl(target) \in DOMAIN net.get
    /\ net.get[QualifyingUrl(target)].kind = "response"
    /\ net.get[QualifyingUrl(target)].status = 200

\* how many records of a list are about a target
RecordsAbout(list, target) ==
    Cardinality({i \in DOMAIN list :
                   list[i].bucket = target[1] /\ list[i].region = target[2]})

\* the lists of the chunk file just written
WrittenLists == result_files[ChunkFileName].results

\* the public list holds public and accessible records only, the private list
\* private, exists and unknown records only
ListsTyped ==
    /\ \A i \in DOMAIN WrittenLists.public :
          WrittenLists.public[i].access \in {"public", "accessible"}
    /\ \A i \in DOMAIN WrittenLists.private :
          WrittenLists.private[i].access \in {"private", "exists", "unknown"}

\* C30 as stated: in the chunk file every target that was found has exactly
\* one record, in the list its classification selects, and no target has a
\* record in both lists.
ResultsInExactlyOneList ==
    pc = "mark" =>
        /\ ListsTyped
        /\ \A target \in Range(combinations) :
              TargetFound(target) =>
                  RecordsAbout(WrittenLists.public, target)
                    + RecordsAbout(WrittenLists.private, target) = 1

\* C30, amended: a found target that is public or accessible has exactly one
\* record, in the public list; any other found target has exactly one record,
\* in the private list, unless --public was given, and then none; a target
\* that was not found has none.
ResultsInAtMostOneList ==
    pc = "mark" =>
        /\ ListsTyped
        /\ \A target \in Range(combinations) :
              /\ RecordsAbout(WrittenLists.public, target)
                   = (IF TargetFound(target) /\ TargetOpen(target) THEN 1 ELSE 0)
              /\ RecordsAbout(WrittenLists.private, target)
                   = (IF TargetFound(target) /\ ~TargetOpen(target) /\ ~args.public_only
                      THEN 1 ELSE 0)

\* with --public: one target is in the public list, the other, found and
\* private, is in neither
ResultsInAtMostOneListWitness ==
    /\ pc = "mark"
    /\ args.public_only
    /\ Len(WrittenLists.public) = 1
    /\ WrittenLists.private = <<>>
    /\ \E target \in Range(combinations) : TargetFound(target) /\ ~TargetOpen(target)

\* ---------------------------------------------------------------------------
\* C31: with --public the private list of the process is empty in every
\* state and so is the private list of every chunk file; a found target
\* whose GET is answered 200 (public, accessible) has its record in the
\* public list of the chunk file, every other found target (private, exists,
\* unknown) has no record at all.
PublicOnlyKeepsNoPrivate ==
    args.public_only =>
        /\ results.private = <<>>
        /\ \A f \in DOMAIN result_files :
              /\ result_files[f].results.private = <<>>
              /\ result_files[f].stats.private_found = 0
        /\ pc = "mark" =>
              \A target \in Range(combinations) :
                 /\ TargetFound(target) /\ TargetOpen(target)
                      => RecordsAbout(WrittenLists.public, target) = 1
                 /\ TargetFound(target) /\ ~TargetOpen(target)
                      => RecordsAbout(WrittenLists.public, target) = 0

\* with --public a chunk file is written after two targets were found, one
\* answered 403 (private) and one answered 500 (unknown): it has no record
PublicOnlyKeepsNoPrivateWitness ==
    /\ args.public_only
    /\ pc = "mark"
    /\ \E target, other \in Range(combinations) :
          /\ TargetFound(target)
          /\ net.get[QualifyingUrl(target)] = Status(500)
          /\ TargetFound(other)
          /\ net.get[QualifyingUrl(other)] = Status(403)
    /\ WrittenLists = FreshResults
    /\ result_files[ChunkFileName].stats.total_checked = Len(combinations)

\* ---------------------------------------------------------------------------
\* C32 as stated: a run started with --no-resume ignores the persisted
\* completion state and takes every wordlist entry as pending; a run started
\* without it takes the entries that are not completed.
ResumeFlagTakesEffect ==
    pc = "loaded" =>
        remaining_domains = (IF resume THEN RemainingDomains(wordlist, load_domain_state[1])
                             ELSE wordlist)

\* ---------------------------------------------------------------------------
\* the previous invocation ended by itself after an escalated round over the
\* whole wordlist
PreviousRoundComplete ==
    /\ ~prev_run.crashed
    /\ prev_run.probed_chunks # <<>>
    /\ \A i \in DOMAIN prev_run.probed_chunks :
          prev_run.probed_chunks[i].level > args.permutation_level
    /\ Range(WordsOf(prev_run.probed_chunks)) = WordSet

\* C33 as stated: repeated invocations scan at each successive level; an
\* invocation that escalates after the previous one finished a whole round at
\* an escalated level works at a higher level than that round did.
EscalationAdvances ==
    (/\ permutation_level > args.permutation_level
     /\ PreviousRoundComplete)
    => permutation_level > prev_run.probed_chunks[1].level

\* ---------------------------------------------------------------------------
\* C34 as stated: under a cap smaller than the wordlist the escalation rounds
\* of successive invocations get to every entry; a capped escalation round
\* that follows a finished capped round at the same level takes up an entry
\* that round did not scan.
CappedEscalationCovers ==
    (/\ pc = "done"
     /\ permutation_level > args.permutation_level
     /\ args.domains_per_hour \in 1..(Len(wordlist) - 1)
     /\ Cardinality(WordSet) = Len(wordlist)
     /\ ~prev_run.crashed
     /\ prev_run.probed_chunks # <<>>
     /\ \A i \in DOMAIN prev_run.probed_chunks :
           prev_run.probed_chunks[i].level = permutation_level)
    => ~(Range(WordsOf(probed_chunks)) \subseteq Range(WordsOf(prev_run.probed_chunks)))

\* ---------------------------------------------------------------------------
\* C35: in a run that loaded a completed set holding the whole wordlist and
\* was started at level 3, no name is probed, no chunk is processed, and no
\* step changes the state file or a result file: the run goes from the load
\* to its end.
ExhaustedRunDoesNothing ==
    /\ []((CompleteStart /\ args.permutation_level = 3)
            => /\ probes = {}
               /\ probed_chunks = <<>>
               /\ pc \in {"loaded", "done"})
    /\ [][(CompleteStart /\ args.permutation_level = 3)
            => /\ state_file' = state_file
               /\ result_files' = result_files]_vars

\* such a run has returned; an earlier invocation had work to do
ExhaustedRunDoesNothingWitness ==
    /\ CompleteStart
    /\ args.permutation_level = 3
    /\ pc = "done"
    /\ Len(wordlist) = 2
    /\ run = 2
    /\ prev_run.probed_chunks # <<>>

\* ---------------------------------------------------------------------------
\* the URLs of a list of the readable bucket files on disk
UrlsOnDisk(kind) ==
    UNION {{aggregate_files[i][kind][k].url : k \in DOMAIN aggregate_files[i][kind]} :
             i \in {j \in DOMAIN aggregate_files : aggregate_files[j].kind = "json"}}

\* C36 as stated: the merge deletes a chunk file only if it could be parsed
\* and every record of it that has a URL is, by its URL, in the same list of
\* the bucket files on disk; a chunk file that could not be parsed stays.
SourcesDeletedOnlyMerged ==
    [][\A i \in (DOMAIN batch_files) \ (DOMAIN batch_files') :
          /\ batch_files[i].kind = "json"
          /\ \A kind \in {"public", "private"} :
                \A k \in DOMAIN batch_files[i][kind] :
                   batch_files[i][kind][k].url # ""
                     => batch_files[i][kind][k].url \in UrlsOnDisk(kind)]_vars

\* ---------------------------------------------------------------------------
\* the records of one list the merge combines: the bucket files first, then
\* the chunk files in the order of their names
CombinedList(kind) == load_existing_buckets[kind] \o load_new_buckets[kind]

\* the list of that kind the merge is about to write
MergedList(kind) == IF new_files = <<>> THEN <<>> ELSE new_files[1][kind]

\* the last occurrence of the URL of combined[i]
LastOccurrence(combined, i) ==
    combined[CHOOSE j \in DOMAIN combined :
                /\ combined[j].url = combined[i].url
                /\ \A k \in DOMAIN combined : combined[k].url = combined[i].url => k <= j]

\* C37: for every URL among the existing and the new records of a list, the
\* merged list holds exactly one record with that URL, and it is the last
\* occurrence in the order bucket files, then chunk files by name.
MergeKeepsLastOccurrence ==
    (stage = "merge" /\ stage_pc = "write" /\ written = 0) =>
        \A kind \in {"public", "private"} :
           \A i \in DOMAIN CombinedList(kind) :
              CombinedList(kind)[i].url # "" =>
                 /\ Cardinality({k \in DOMAIN MergedList(kind) :
                                   MergedList(kind)[k].url = CombinedList(kind)[i].url}) = 1
                 /\ \E k \in DOMAIN MergedList(kind) :
                       MergedList(kind)[k] = LastOccurrence(CombinedList(kind), i)

\* the stored record, the record of the first chunk file and the record of
\* the second have one URL: the merged list holds the record of the second
MergeKeepsLastOccurrenceWitness ==
    /\ stage = "merge"
    /\ stage_pc = "write"
    /\ written = 0
    /\ Len(CombinedList("public")) = 3
    /\ \A i \in 1..3 : CombinedList("public")[i].url = CombinedList("public")[1].url
    /\ \A i \in 1..3 : CombinedList("public")[i].timestamp = i
    /\ MergedList("public") = <<CombinedList("public")[3]>>

\* ---------------------------------------------------------------------------
\* C38: the file written for a chunk carries the number of the chunk; every
\* record of it is about a (name, region) pair of that chunk and no pair has
\* two records; its stats are the lengths of its two lists and the number of
\* pairs the chunk probed; the earlier chunks of the run have other files.
ChunkFileDescribesChunk ==
    pc = "mark" =>
        /\ result_files[ChunkFileName].chunk_id = idx + 1
        /\ \A kind \in {"public", "private"} :
              \A i \in DOMAIN WrittenLists[kind] :
                 <<WrittenLists[kind][i].bucket, WrittenLists[kind][i].region>>
                    \in Range(combinations)
        /\ \A target \in Range(combinations) :
              RecordsAbout(WrittenLists.public, target)
                + RecordsAbout(WrittenLists.private, target) <= 1
        /\ result_files[ChunkFileName].stats
              = [total_checked |-> Len(combinations),
                 public_found |-> Len(WrittenLists.public),
                 private_found |-> Len(WrittenLists.private)]
        /\ \A j \in 1..idx : <<Str(chunks[j][1]), j>> # ChunkFileName

\* the file of the second chunk of a run is written and has no public
\* record, while the file of the first chunk has one
ChunkFileDescribesChunkWitness ==
    /\ pc = "mark"
    /\ idx = 1
    /\ <<Str(chunks[1][1]), 1>> \in DOMAIN result_files
    /\ result_files[<<Str(chunks[1][1]), 1>>].results.public # <<>>
    /\ result_files[<<Str(chunks[1][1]), 1>>].stats.total_checked > 0
    /\ WrittenLists.public = <<>>
    /\ WrittenLists.private # <<>>

\* ---------------------------------------------------------------------------
\* the last invocation
LastScan == scan_log[Len(scan_log)]

\* C39 as stated: after an invocation that found every program scanned, reset
\* the state and scanned the first program, the persisted scanned set holds
\* only the program just scanned.
ResetStartsNewCycle ==
    (/\ scan_log # <<>>
     /\ LastScan.reset
     /\ LastScan.recorded)
    => nuclei_state.scanned_programs = {LastScan.id}

====
